---- MODULE Spec2Model ----
(***************************************************************************)
(* The command-safety and execution layer of git-commit-agent:             *)
(*   execute_git_command  (tools/git-master-tool)                          *)
(*   git_commit           (tools/git-commit.tool.ts)                       *)
(*   validateGitRepo, validateCommandSyntax (utils/git-commands)           *)
(*   validateCommitMessage (utils/validators.ts)                           *)
(*                                                                         *)
(* A JavaScript string is modelled as the sequence of its characters, so   *)
(* that includes / startsWith / substring / join / split are computed the  *)
(* way the code computes them.  An optional value (undefined, null) is the *)
(* empty tuple << >>; a present value v is the one-element tuple << v >>.   *)
(***************************************************************************)
EXTENDS Integers, Sequences, FiniteSets, TLC

VARIABLES
    pc,                 \* position of the running handler ("idle" when none runs)
    req,                \* the request the handler was called with
    args,               \* the handler's local `args`
    commitMessageFile,  \* the handler's local `commitMessageFile` (<< >> = null)
    warnings,           \* the handler's local `warnings`
    pending,            \* value of the `return` statement waiting for `finally`
    result,             \* the Tool Result handed back to the caller (<< >> = none yet)
    files,              \* the working directory: path -> content
    now,                \* Date.now()
    startTime,          \* the handler's local `startTime`
    spawns,             \* subprocesses spawned during the call, in order
    classified,         \* argument lists that reached the safety check during the call
    log,                \* logExecution records written during the call
    files0,             \* the working directory when the call was entered
    cleanup,            \* what the finally block did: "none", "unlinked", "unlinkFailed"
    steps,              \* the operations the call has performed, in order, with their time
    partialResults,     \* git_status: the handler's `results.partialResults`
    caught,             \* the error the handler's catch block received (<< >> = none)
    execaResult         \* what the command subprocess ended with (<< >> = not ended): << exitCode >>

vars == << pc, req, args, commitMessageFile, warnings, pending, result,
           files, now, startTime, spawns, classified, log, files0, cleanup,
           steps, partialResults, caught, execaResult >>

---------------------------------------------------------------------------
(* Bounds of the model *)

MaxArgs == 2
MaxNormArgs == 4
MaxClock == 3
MaxPad == 68

---------------------------------------------------------------------------
(* Strings *)

None == << >>
Some(v) == << v >>
IsSome(o) == o # << >>
Val(o) == o[1]

StartsWith(s, p) ==
    /\ Len(s) >= Len(p)
    /\ SubSeq(s, 1, Len(p)) = p

Includes(s, p) ==
    \E i \in 1..(Len(s) - Len(p) + 1) : SubSeq(s, i, i + Len(p) - 1) = p

Substring(s, from) == SubSeq(s, from + 1, Len(s))

RECURSIVE Join(_, _)
Join(list, sep) ==
    IF list = << >> THEN << >>
    ELSE IF Len(list) = 1 THEN list[1]
    ELSE list[1] \o sep \o Join(Tail(list), sep)

SP == << " " >>
NL == "\n"

\* message.split("\n")[0]
FirstLine(s) ==
    IF \E i \in 1..Len(s) : s[i] = NL
    THEN SubSeq(s, 1, (CHOOSE i \in 1..Len(s) :
                          s[i] = NL /\ \A j \in 1..(i - 1) : s[j] # NL) - 1)
    ELSE s

IsWhitespace(c) == c \in {" ", "\n", "\t", "\r"}

\* message.trim().length === 0
TrimIsEmpty(s) == \A i \in 1..Len(s) : IsWhitespace(s[i])

Digit(d) == << "0", "1", "2", "3", "4", "5", "6", "7", "8", "9" >>[d + 1]

RECURSIVE DecimalString(_)
DecimalString(n) ==
    IF n < 10 THEN << Digit(n) >>
    ELSE Append(DecimalString(n \div 10), Digit(n % 10))

---------------------------------------------------------------------------
(* Words of the git vocabulary used below *)

s_reset     == << "r", "e", "s", "e", "t" >>
s_push      == << "p", "u", "s", "h" >>
s_clean     == << "c", "l", "e", "a", "n" >>
s_commit    == << "c", "o", "m", "m", "i", "t" >>
s_merge     == << "m", "e", "r", "g", "e" >>
s_status    == << "s", "t", "a", "t", "u", "s" >>
s_mergebase == << "m", "e", "r", "g", "e", "-", "b", "a", "s", "e" >>
s_diff      == << "d", "i", "f", "f" >>
s_log       == << "l", "o", "g" >>
s_revparse  == << "r", "e", "v", "-", "p", "a", "r", "s", "e" >>
s_gitdir    == << "-", "-", "g", "i", "t", "-", "d", "i", "r" >>
s_cached    == << "-", "-", "c", "a", "c", "h", "e", "d" >>
s_nameonly  == << "-", "-", "n", "a", "m", "e", "-", "o", "n", "l", "y" >>
s_HEAD      == << "H", "E", "A", "D" >>
s_minus1    == << "-", "1" >>
s_prettyfmt == << "-", "-", "p", "r", "e", "t", "t", "y", "=", "f", "o", "r", "m", "a", "t", ":",
                  "%", "H", "|", "%", "a", "n", "|", "%", "a", "e", "|", "%", "a", "d", "|", "%", "s" >>
s_hard      == << "-", "-", "h", "a", "r", "d" >>
s_force     == << "-", "-", "f", "o", "r", "c", "e" >>
s_f         == << "-", "f" >>
s_m         == << "-", "m" >>
s_F         == << "-", "F" >>
s_HEAD1     == << "H", "E", "A", "D", "~", "1" >>
s_depth     == << "-", "-", "d", "e", "p", "t", "h" >>
s_unified   == << "-", "-", "u", "n", "i", "f", "i", "e", "d" >>
s_unified3  == << "-", "-", "u", "n", "i", "f", "i", "e", "d", "=", "3" >>
s_stat      == << "-", "-", "s", "t", "a", "t" >>
s_since     == << "-", "-", "s", "i", "n", "c", "e" >>
s_p         == << "-", "p" >>
s_3         == << "3" >>
s_empty     == << >>
s_rmrf      == << "r", "m", " ", "-", "r", "f" >>
s_sentinelx == << "c", "o", "m", "m", "i", "t", " ", "m", "e", "s", "s", "a", "g", "e", " ", "x" >>

---------------------------------------------------------------------------
(* tools/git-master-tool: the safety classifier *)

DANGEROUS_COMMANDS ==
    << << "r", "e", "s", "e", "t", " ", "-", "-", "h", "a", "r", "d" >>,
       << "p", "u", "s", "h", " ", "-", "-", "f", "o", "r", "c", "e" >>,
       << "p", "u", "s", "h", " ", "-", "f" >>,
       << "c", "l", "e", "a", "n", " ", "-", "f", "d" >>,
       << "c", "l", "e", "a", "n", " ", "-", "f" >>,
       << "r", "m", " ", "-", "r", "f" >> >>

CAUTION_COMMANDS ==
    << << "r", "e", "b", "a", "s", "e" >>,
       << "m", "e", "r", "g", "e" >>,
       << "c", "h", "e", "r", "r", "y", "-", "p", "i", "c", "k" >>,
       << "r", "e", "s", "e", "t" >> >>

\* `${command} ${args.join(" ")}`
FullCommand(command, a) == command \o SP \o Join(a, SP)

isDangerousCommand_flagAnywhere(command, a) ==
    \/ command = s_reset /\ \E i \in 1..Len(a) : a[i] = s_hard
    \/ command = s_push /\ \E i \in 1..Len(a) : a[i] \in {s_force, s_f}
    \/ \E k \in 1..Len(DANGEROUS_COMMANDS) : Includes(FullCommand(command, a), DANGEROUS_COMMANDS[k])

isDangerousCommand(command, a) ==
    \E k \in 1..Len(DANGEROUS_COMMANDS) :
        Includes(FullCommand(command, a), DANGEROUS_COMMANDS[k])

requiresCaution_substring(command) ==
    \E k \in 1..Len(CAUTION_COMMANDS) : Includes(command, CAUTION_COMMANDS[k])

requiresCaution(command) ==
    \E k \in 1..Len(CAUTION_COMMANDS) : CAUTION_COMMANDS[k] = command

---------------------------------------------------------------------------
(* utils/git-commands: the syntax normalizer *)

equalsOptions ==
    { << "u", "n", "i", "f", "i", "e", "d" >>,
      << "f", "o", "r", "m", "a", "t" >>,
      << "p", "r", "e", "t", "t", "y" >>,
      << "d", "a", "t", "e" >>,
      << "c", "o", "l", "o", "r" >>,
      << "a", "b", "b", "r", "e", "v" >>,
      << "d", "e", "p", "t", "h" >>,
      << "s", "i", "n", "c", "e" >>,
      << "u", "n", "t", "i", "l" >>,
      << "a", "u", "t", "h", "o", "r" >>,
      << "c", "o", "m", "m", "i", "t", "t", "e", "r" >>,
      << "g", "r", "e", "p" >> }

\* the test of the inner `if`: the option takes = syntax and the next
\* argument exists and is a value
NeedsMerge_anyNext(a, i) ==
    /\ StartsWith(a[i], << "-", "-" >>)
    /\ Substring(a[i], 2) \in equalsOptions
    /\ i + 1 <= Len(a)

\* the option name compared by prefix instead of by equality
NeedsMerge_prefix(a, i) ==
    /\ StartsWith(a[i], << "-", "-" >>)
    /\ \E n \in equalsOptions : StartsWith(Substring(a[i], 2), n)
    /\ i + 1 <= Len(a)
    /\ ~StartsWith(a[i + 1], << "-" >>)

NeedsMerge(a, i) ==
    /\ StartsWith(a[i], << "-", "-" >>)
    /\ Substring(a[i], 2) \in equalsOptions
    /\ i + 1 <= Len(a)
    /\ ~StartsWith(a[i + 1], << "-" >>)

\* the body of the while loop, from index i on (1-based), with the
\* corrected arguments collected so far
RECURSIVE NormalizeFrom(_, _, _)
NormalizeFrom(a, i, correctedArgs) ==
    IF i > Len(a) THEN correctedArgs
    ELSE IF a[i] = << >> THEN NormalizeFrom(a, i + 1, correctedArgs)
    ELSE IF NeedsMerge(a, i)
         THEN NormalizeFrom(a, i + 2, Append(correctedArgs, a[i] \o << "=" >> \o a[i + 1]))
         ELSE NormalizeFrom(a, i + 1, Append(correctedArgs, a[i]))

validateCommandSyntax(command, a) == NormalizeFrom(a, 1, << >>)

---------------------------------------------------------------------------
(* utils/git-error: GitError and ToolResult *)

\* a constructor that drops its recoverable argument for the default (true)
GitError_defaultRecoverable(code, recoverable, suggestion) ==
    [code |-> Some(code), recoverable |-> Some(TRUE), suggestion |-> Some(suggestion)]

\* new GitError(message, code, details, recoverable, suggestion)
GitError(code, recoverable, suggestion) ==
    [code |-> Some(code), recoverable |-> Some(recoverable), suggestion |-> Some(suggestion)]

\* an Error raised by fs.writeFile: it carries the errno name in `code` and
\* neither `recoverable` nor `suggestion`
FsError == [code |-> Some("EACCES"), recoverable |-> None, suggestion |-> None]

\* an Error that carries no `code`, `recoverable` or `suggestion`
PlainError == [code |-> None, recoverable |-> None, suggestion |-> None]

\* a ToolResult with success false: `error` set, `data` and `warnings` absent
\* (the message, command string and details of the error are not modelled)
ErrorToolResult(code, recoverable, suggestion) ==
    [success  |-> FALSE,
     data     |-> None,
     error    |-> Some([code |-> code, recoverable |-> recoverable,
                        suggestion |-> suggestion]),
     warnings |-> << >>]

\* a ToolResult with success true: `data` set, `error` absent, `warnings`
\* present when not empty (stdout and stderr are not modelled)
SuccessToolResult(exitCode, executionTime, w) ==
    [success  |-> TRUE,
     data     |-> Some([exitCode |-> exitCode, executionTime |-> executionTime]),
     error    |-> None,
     warnings |-> w]

\* the result built at lines 240-250 of execute_git_command
BlockedResult ==
    ErrorToolResult("DANGEROUS_COMMAND_BLOCKED", FALSE,
                    Some("set allowDangerous: true"))

\* the result built at lines 283-305 of execute_git_command; details holds
\* result.exitCode (undefined when the subprocess was killed or never
\* started), stdout and stderr
FailedResult(exitCode) ==
    [success  |-> FALSE,
     data     |-> None,
     error    |-> Some([code |-> "GIT_COMMAND_FAILED", recoverable |-> TRUE,
                        suggestion |-> Some("Check the command syntax and repository state"),
                        details |-> [exitCode |-> exitCode, stdout |-> "stdout",
                                     stderr |-> "stderr"]]),
     warnings |-> << >>]

\* the result built in the catch block of execute_git_command (lines 336-346)
CaughtResult(error) ==
    ErrorToolResult(
        IF IsSome(error.code) THEN Val(error.code) ELSE "UNKNOWN_ERROR",
        IF IsSome(error.recoverable) THEN Val(error.recoverable) ELSE TRUE,
        IF IsSome(error.suggestion) THEN error.suggestion
        ELSE Some("Check git installation and repository state"))

\* the record logExecution prints: the icon line, and the error line when
\* the call failed and an error was passed
logExecution(start, end, success, hasError) ==
    [duration |-> end - start, success |-> success, errorLine |-> (~success /\ hasError)]

---------------------------------------------------------------------------
(* The working directory *)

Cwd == << "/", "r", "e", "p", "o" >>

\* path.join(process.cwd(), `commit_message_${Date.now()}.txt`)
TempPath(t) ==
    Cwd \o << "/" >>
        \o << "c", "o", "m", "m", "i", "t", "_", "m", "e", "s", "s", "a", "g", "e", "_" >>
        \o DecimalString(t)
        \o << ".", "t", "x", "t" >>

NoFiles == [p \in {} |-> << >>]

FileExists(fs, p) == p \in DOMAIN fs

\* what fs.writeFile(path, data) leaves in the file when it succeeds
FileContentWritten_firstLine(data) == FirstLine(data)

FileContentWritten(data) == data

WriteFile(fs, p, data) ==
    [q \in (DOMAIN fs) \cup {p} |-> IF q = p THEN FileContentWritten(data) ELSE fs[q]]

\* a write that failed after the file was opened leaves it truncated
TruncateFile(fs, p) ==
    [q \in (DOMAIN fs) \cup {p} |-> IF q = p THEN << >> ELSE fs[q]]

Unlink(fs, p) == [q \in (DOMAIN fs) \ {p} |-> fs[q]]

---------------------------------------------------------------------------
(* Requests the agent may issue *)

\* all sequences over S of length at most n
SeqsUpTo(S, n) == UNION { [1..k -> S] : k \in 0..n }

\* requests that exercise the safety classifier
SafetyCommands == { s_reset, s_push, s_clean, s_merge, s_mergebase }
SafetyArgs == { s_hard, s_force, s_f, s_HEAD1, s_rmrf, s_empty }

\* requests that exercise commit-message staging
StagingCommands == { s_commit, s_merge }
StagingArgs == { s_m, s_sentinelx, s_depth, s_HEAD1, s_rmrf }

m_multiline == << "f", "i", "x", ":", " ", "a", "\n", "\n", "b" >>
m_wip       == << "w", "i", "p" >>

\* commitMessage: undefined, the empty string, a multi-line message
CommitMessages == { None, Some(<< >>), Some(m_multiline) }

\* a request to execute_git_command; allowDangerous is given with its
\* default (false) already applied
MasterRequests ==
    [tool : {"execute_git_command"},
     command : SafetyCommands,
     args : SeqsUpTo(SafetyArgs, MaxArgs),
     allowDangerous : BOOLEAN,
     commitMessage : {None},
     validate : {None}]
    \cup
    [tool : {"execute_git_command"},
     command : StagingCommands,
     args : SeqsUpTo(StagingArgs, MaxArgs),
     allowDangerous : BOOLEAN,
     commitMessage : CommitMessages,
     validate : {None}]

\* a request to git_commit: commit_message (required) and validate (optional)
CommitRequests ==
    [tool : {"git_commit"},
     command : {s_commit},
     args : {<< >>},
     allowDangerous : {FALSE},
     commitMessage : { Some(<< >>), Some(m_multiline), Some(m_wip) },
     validate : {None, Some(TRUE), Some(FALSE)}]

NoRequest ==
    [tool |-> "none", command |-> << >>, args |-> << >>, allowDangerous |-> FALSE,
     commitMessage |-> None, validate |-> None]

\* a JavaScript string used as a condition: defined and not empty
Truthy(optString) == IsSome(optString) /\ Val(optString) # << >>

Spawn(site, argv) == [site |-> site, argv |-> argv]

---------------------------------------------------------------------------
(* execute_git_command (tools/git-master-tool) *)

\* the condition of the commit-message branch
StagesCommitMessage_anyCommand(r) == Truthy(r.commitMessage)

\* the branch taken for an empty commitMessage as well
StagesCommitMessage_anyString(r) == r.command = s_commit /\ IsSome(r.commitMessage)

StagesCommitMessage(r) == r.command = s_commit /\ Truthy(r.commitMessage)

\* args.filter((arg) => arg !== "-m" && !arg.startsWith("commit message"))
KeepArg(arg) ==
    /\ arg # s_m
    /\ ~StartsWith(arg, << "c", "o", "m", "m", "i", "t", " ", "m", "e", "s", "s", "a", "g", "e" >>)

FilteredArgs(a) == SelectSeq(a, KeepArg)

\* args = ["-F", commitMessageFile, ...filteredArgs]
StagedArgs_keepAll(a, file) == << s_F, file >> \o a

StagedArgs(a, file) == << s_F, file >> \o FilteredArgs(a)

\* an operation of the call, with the time at which it was started
Step(op) == [op |-> op, at |-> now]

\* a catch block that logs and throws the error again: no return value
Catch_rethrow(error) ==
    /\ log' = Append(log, logExecution(startTime, now, FALSE, TRUE))
    /\ steps' = Append(steps, Step("logExecution"))
    /\ pending' = None
    /\ pc' = "finally"
    /\ caught' = Some(error)

\* a catch block that builds the result without logging
Catch_silent(error) ==
    /\ UNCHANGED << log, steps >>
    /\ pending' = Some(CaughtResult(error))
    /\ pc' = "finally"
    /\ caught' = Some(error)

\* the catch block: log the failure, build the result, go to finally
Catch(error) ==
    /\ log' = Append(log, logExecution(startTime, now, FALSE, TRUE))
    /\ steps' = Append(steps, Step("logExecution"))
    /\ pending' = Some(CaughtResult(error))
    /\ pc' = "finally"
    /\ caught' = Some(error)

\* the safety check placed after the spawn
SafetyCheckThenSpawn_spawnFirst(a, done) ==
    /\ classified' = Append(classified, a)
    /\ spawns' = Append(spawns, Spawn("execa", << req.command >> \o a))
    /\ IF ~req.allowDangerous /\ isDangerousCommand(req.command, a)
       THEN /\ log' = Append(log, logExecution(startTime, now, FALSE, TRUE))
            /\ pending' = Some(BlockedResult)
            /\ pc' = "finally"
            /\ steps' = done \o << Step("execa"), Step("safetyCheck"), Step("logExecution") >>
            /\ UNCHANGED warnings
       ELSE /\ warnings' = IF requiresCaution(req.command) THEN << "caution" >> ELSE << >>
            /\ pc' = "execa"
            /\ steps' = done \o << Step("execa"), Step("safetyCheck") >>
            /\ UNCHANGED << log, pending >>

\* the safety check without the allowDangerous override
SafetyCheckThenSpawn_noOverride(a, done) ==
    /\ classified' = Append(classified, a)
    /\ IF isDangerousCommand(req.command, a)
       THEN /\ log' = Append(log, logExecution(startTime, now, FALSE, TRUE))
            /\ pending' = Some(BlockedResult)
            /\ pc' = "finally"
            /\ steps' = done \o << Step("safetyCheck"), Step("logExecution") >>
            /\ UNCHANGED << warnings, spawns >>
       ELSE /\ warnings' = IF requiresCaution(req.command) THEN << "caution" >> ELSE << >>
            /\ spawns' = Append(spawns, Spawn("execa", << req.command >> \o a))
            /\ pc' = "execa"
            /\ steps' = done \o << Step("safetyCheck"), Step("execa") >>
            /\ UNCHANGED << log, pending >>

\* the safety check handed the raw arguments of the request
SafetyCheckThenSpawn_classifyRawArgs(a, done) ==
    /\ classified' = Append(classified, req.args)
    /\ IF ~req.allowDangerous /\ isDangerousCommand(req.command, req.args)
       THEN /\ log' = Append(log, logExecution(startTime, now, FALSE, TRUE))
            /\ pending' = Some(BlockedResult)
            /\ pc' = "finally"
            /\ steps' = done \o << Step("safetyCheck"), Step("logExecution") >>
            /\ UNCHANGED << warnings, spawns >>
       ELSE /\ warnings' = IF requiresCaution(req.command) THEN << "caution" >> ELSE << >>
            /\ spawns' = Append(spawns, Spawn("execa", << req.command >> \o a))
            /\ pc' = "execa"
            /\ steps' = done \o << Step("safetyCheck"), Step("execa") >>
            /\ UNCHANGED << log, pending >>

\* from the safety check to the await on execa, with `a` the value of args
\* and `done` the operations performed so far
SafetyCheckThenSpawn(a, done) ==
    /\ classified' = Append(classified, a)
    /\ IF ~req.allowDangerous /\ isDangerousCommand(req.command, a)
       THEN /\ log' = Append(log, logExecution(startTime, now, FALSE, TRUE))
            /\ pending' = Some(BlockedResult)
            /\ pc' = "finally"
            /\ steps' = done \o << Step("safetyCheck"), Step("logExecution") >>
            /\ UNCHANGED << warnings, spawns >>
       ELSE /\ warnings' = IF requiresCaution(req.command) THEN << "caution" >> ELSE << >>
            /\ spawns' = Append(spawns, Spawn("execa", << req.command >> \o a))
            /\ pc' = "execa"
            /\ steps' = done \o << Step("safetyCheck"), Step("execa") >>
            /\ UNCHANGED << log, pending >>

\* the agent calls the tool: entry up to the await on validateGitRepo,
\* which spawns `git rev-parse --git-dir`
CallWith(R) ==
    /\ pc = "idle"
    /\ \E r \in R :
         /\ req' = r
         /\ args' = r.args
    /\ commitMessageFile' = None
    /\ warnings' = << >>
    /\ pending' = None
    /\ result' = None
    /\ startTime' = now
    /\ spawns' = << Spawn("validateGitRepo", << s_revparse, s_gitdir >>) >>
    /\ classified' = << >>
    /\ log' = << >>
    /\ files0' = files
    /\ cleanup' = "none"
    /\ steps' = << Step("validateGitRepo") >>
    /\ pc' = "validateGitRepo"
    /\ UNCHANGED << files, now >>
    /\ UNCHANGED partialResults
    /\ UNCHANGED caught
    /\ UNCHANGED execaResult

Call == CallWith(MasterRequests)

\* validateGitRepo throws NOT_GIT_REPO
RepoCheckFails ==
    /\ pc = "validateGitRepo"
    /\ req.tool = "execute_git_command"
    /\ Catch(GitError("NOT_GIT_REPO", FALSE, "git init"))
    /\ UNCHANGED << req, args, commitMessageFile, warnings, result, files, now,
                    startTime, spawns, classified, files0, cleanup >>
    /\ UNCHANGED partialResults
    /\ UNCHANGED execaResult

\* validateGitRepo resolves: normalize, then either start writing the
\* commit message or go on to the safety check
RepoCheckPasses ==
    /\ pc = "validateGitRepo"
    /\ req.tool = "execute_git_command"
    /\ LET a == validateCommandSyntax(req.command, req.args) IN
         /\ args' = a
         /\ IF StagesCommitMessage(req)
            THEN /\ commitMessageFile' = Some(TempPath(now))
                 /\ pc' = "writeFile"
                 /\ steps' = steps \o << Step("validateCommandSyntax"), Step("writeFile") >>
                 /\ UNCHANGED << warnings, pending, spawns, classified, log >>
            ELSE /\ SafetyCheckThenSpawn(a, Append(steps, Step("validateCommandSyntax")))
                 /\ UNCHANGED commitMessageFile
    /\ UNCHANGED << req, result, files, now, startTime, files0, cleanup >>
    /\ UNCHANGED partialResults
    /\ UNCHANGED caught
    /\ UNCHANGED execaResult

\* fs.writeFile resolves: rewrite args, then the safety check
WriteSucceeds ==
    /\ pc = "writeFile"
    /\ req.tool = "execute_git_command"
    /\ files' = WriteFile(files, Val(commitMessageFile), Val(req.commitMessage))
    /\ LET a == StagedArgs(args, Val(commitMessageFile)) IN
         /\ args' = a
         /\ SafetyCheckThenSpawn(a, steps)
    /\ UNCHANGED << req, commitMessageFile, result, now, startTime, files0, cleanup >>
    /\ UNCHANGED partialResults
    /\ UNCHANGED caught
    /\ UNCHANGED execaResult

\* fs.writeFile rejects, having created the file or not
WriteFails ==
    /\ pc = "writeFile"
    /\ req.tool = "execute_git_command"
    /\ \E created \in BOOLEAN :
         files' = IF created THEN TruncateFile(files, Val(commitMessageFile)) ELSE files
    /\ Catch(FsError)
    /\ UNCHANGED << req, args, commitMessageFile, warnings, result, now,
                    startTime, spawns, classified, files0, cleanup >>
    /\ UNCHANGED partialResults
    /\ UNCHANGED execaResult

\* the time reported is measured from the spawn of the command subprocess
ExecaExits_fromSpawn ==
    /\ pc = "execa"
    /\ req.tool = "execute_git_command"
    /\ \E exitCode \in {0, 1} :
         LET success == (exitCode = 0)
             spawnedAt == steps[CHOOSE i \in DOMAIN steps : steps[i].op = "execa"].at IN
           /\ execaResult' = Some(Some(exitCode))
           /\ log' = Append(log, logExecution(spawnedAt, now, success, ~success))
           /\ pending' = Some(IF success
                              THEN SuccessToolResult(exitCode, now - spawnedAt, warnings)
                              ELSE FailedResult(Some(exitCode)))
    /\ steps' = Append(steps, Step("logExecution"))
    /\ pc' = "finally"
    /\ UNCHANGED << req, args, commitMessageFile, warnings, result, files, now,
                    startTime, spawns, classified, files0, cleanup >>
    /\ UNCHANGED partialResults
    /\ UNCHANGED caught

\* execa with its default `reject: true`: a nonzero exit is thrown
ExecaExits_rejects ==
    /\ pc = "execa"
    /\ req.tool = "execute_git_command"
    /\ \E exitCode \in {0, 1} :
         /\ execaResult' = Some(Some(exitCode))
         /\ IF exitCode = 0
            THEN /\ log' = Append(log, logExecution(startTime, now, TRUE, FALSE))
                 /\ pending' = Some(SuccessToolResult(exitCode, now - startTime, warnings))
                 /\ steps' = Append(steps, Step("logExecution"))
                 /\ pc' = "finally"
                 /\ UNCHANGED caught
            ELSE Catch(PlainError)
    /\ UNCHANGED << req, args, commitMessageFile, warnings, result, files, now,
                    startTime, spawns, classified, files0, cleanup >>
    /\ UNCHANGED partialResults

\* execa resolves (reject: false) with the exit code of the subprocess:
\* 0 or not
ExecaExits ==
    /\ pc = "execa"
    /\ req.tool = "execute_git_command"
    /\ \E exitCode \in {0, 1} :
         LET success == (exitCode = 0) IN
           /\ execaResult' = Some(Some(exitCode))
           /\ log' = Append(log, logExecution(startTime, now, success, ~success))
           /\ pending' = Some(IF success
                              THEN SuccessToolResult(exitCode, now - startTime, warnings)
                              ELSE FailedResult(Some(exitCode)))
    /\ steps' = Append(steps, Step("logExecution"))
    /\ pc' = "finally"
    /\ UNCHANGED << req, args, commitMessageFile, warnings, result, files, now,
                    startTime, spawns, classified, files0, cleanup >>
    /\ UNCHANGED partialResults
    /\ UNCHANGED caught

\* execa called without a timeout: the timer never fires
ExecaTimesOut_noTimeout ==
    /\ FALSE
    /\ UNCHANGED vars

\* the 30000 ms timeout of execa expires (or the subprocess cannot be
\* started): execa kills the subprocess and, with reject: false, resolves
\* with `failed` set and no exit code
ExecaTimesOut ==
    /\ pc = "execa"
    /\ req.tool = "execute_git_command"
    /\ execaResult' = Some(None)
    /\ log' = Append(log, logExecution(startTime, now, FALSE, TRUE))
    /\ pending' = Some(FailedResult(None))
    /\ steps' = Append(steps, Step("logExecution"))
    /\ pc' = "finally"
    /\ UNCHANGED << req, args, commitMessageFile, warnings, result, files, now,
                    startTime, spawns, classified, files0, cleanup >>
    /\ UNCHANGED partialResults
    /\ UNCHANGED caught

\* execa throws
ExecaThrows ==
    /\ pc = "execa"
    /\ req.tool = "execute_git_command"
    /\ Catch(PlainError)
    /\ UNCHANGED << req, args, commitMessageFile, warnings, result, files, now,
                    startTime, spawns, classified, files0, cleanup >>
    /\ UNCHANGED partialResults
    /\ UNCHANGED execaResult

\* `if (commitMessageFile)` of the finally block
CleanupNeeded_onlyOnSuccess == commitMessageFile # None /\ Val(pending).success

CleanupNeeded == commitMessageFile # None

\* finally with no temporary file: the Tool Result is returned
FinallyNoFile ==
    /\ pc = "finally"
    /\ ~CleanupNeeded
    /\ result' = pending
    /\ steps' = Append(steps, Step("return"))
    /\ pc' = "returned"
    /\ UNCHANGED << req, args, commitMessageFile, warnings, pending, files, now,
                    startTime, spawns, classified, log, files0, cleanup >>
    /\ UNCHANGED partialResults
    /\ UNCHANGED caught
    /\ UNCHANGED execaResult

\* finally: fs.unlink removes the file; the Tool Result is returned
UnlinkSucceeds ==
    /\ pc = "finally"
    /\ CleanupNeeded
    /\ FileExists(files, Val(commitMessageFile))
    /\ files' = Unlink(files, Val(commitMessageFile))
    /\ result' = pending
    /\ steps' = steps \o << Step("unlink"), Step("return") >>
    /\ pc' = "returned"
    /\ cleanup' = "unlinked"
    /\ UNCHANGED << req, args, commitMessageFile, warnings, pending, now,
                    startTime, spawns, classified, log, files0 >>
    /\ UNCHANGED partialResults
    /\ UNCHANGED caught
    /\ UNCHANGED execaResult

\* a finally block that lets the rejection of fs.unlink replace the result
UnlinkFails_masksResult ==
    /\ pc = "finally"
    /\ CleanupNeeded
    /\ result' = Some(CaughtResult(FsError))
    /\ steps' = steps \o << Step("unlink"), Step("return") >>
    /\ pc' = "returned"
    /\ cleanup' = "unlinkFailed"
    /\ UNCHANGED << req, args, commitMessageFile, warnings, pending, files, now,
                    startTime, spawns, classified, log, files0 >>
    /\ UNCHANGED partialResults
    /\ UNCHANGED caught
    /\ UNCHANGED execaResult

\* finally: fs.unlink rejects (no such file, or the file cannot be
\* removed); the error is ignored; the Tool Result is returned
UnlinkFails ==
    /\ pc = "finally"
    /\ CleanupNeeded
    /\ result' = pending
    /\ steps' = steps \o << Step("unlink"), Step("return") >>
    /\ pc' = "returned"
    /\ cleanup' = "unlinkFailed"
    /\ UNCHANGED << req, args, commitMessageFile, warnings, pending, files, now,
                    startTime, spawns, classified, log, files0 >>
    /\ UNCHANGED partialResults
    /\ UNCHANGED caught
    /\ UNCHANGED execaResult

\* the agent has read the Tool Result; the handler's frame is gone
Done ==
    /\ pc = "returned"
    /\ pc' = "idle"
    /\ req' = NoRequest
    /\ args' = << >>
    /\ commitMessageFile' = None
    /\ warnings' = << >>
    /\ pending' = None
    /\ result' = None
    /\ startTime' = 0
    /\ spawns' = << >>
    /\ classified' = << >>
    /\ log' = << >>
    /\ files0' = NoFiles
    /\ cleanup' = "none"
    /\ UNCHANGED << files, now >>
    /\ steps' = << >>
    /\ partialResults' = None
    /\ caught' = None
    /\ execaResult' = None

---------------------------------------------------------------------------
(* utils/validators.ts: validateCommitMessage *)

CommitTypes ==
    { << "f", "e", "a", "t" >>, << "f", "i", "x" >>, << "d", "o", "c", "s" >>,
      << "s", "t", "y", "l", "e" >>, << "r", "e", "f", "a", "c", "t", "o", "r" >>,
      << "p", "e", "r", "f" >>, << "t", "e", "s", "t" >>, << "b", "u", "i", "l", "d" >>,
      << "c", "i" >>, << "c", "h", "o", "r", "e" >>, << "r", "e", "v", "e", "r", "t" >> }

MaxFirstLineLength == 72

\* `.` of a regular expression without the s flag: any character but a line
\* terminator
DotChar(c) == c \notin { "\n", "\r" }

\* ": .+" matched at the start of s
MatchesColonDescription(s) ==
    /\ StartsWith(s, << ":", " " >>)
    /\ Len(s) >= 3
    /\ DotChar(s[3])

\* /^(feat|fix|...)(\(.+\))?: .+/.test(line); the line holds no "\n"
MatchesConventionalCommit(line) ==
    \E t \in CommitTypes :
        /\ StartsWith(line, t)
        /\ LET rest == Substring(line, Len(t)) IN
             \/ MatchesColonDescription(rest)
             \/ /\ StartsWith(rest, << "(" >>)
                /\ \E j \in 3..Len(rest) :
                     /\ rest[j] = ")"
                     /\ \A k \in 2..(j - 1) : DotChar(rest[k])
                     /\ MatchesColonDescription(Substring(rest, j))

\* the length check skipped when the format check has failed
validateCommitMessage_formatFirst(message) ==
    IF message = << >> \/ TrimIsEmpty(message)
    THEN [valid |-> FALSE, errors |-> << "empty" >>]
    ELSE LET firstLine == FirstLine(message)
             e1 == IF ~MatchesConventionalCommit(firstLine) THEN << "format" >> ELSE << >>
             e2 == IF e1 = << >> /\ Len(firstLine) > MaxFirstLineLength
                   THEN << "length" >> ELSE << >>
         IN  [valid |-> (e1 \o e2 = << >>), errors |-> e1 \o e2]

validateCommitMessage(message) ==
    IF message = << >> \/ TrimIsEmpty(message)
    THEN [valid |-> FALSE, errors |-> << "empty" >>]
    ELSE LET firstLine == FirstLine(message)
             e1 == IF ~MatchesConventionalCommit(firstLine) THEN << "format" >> ELSE << >>
             e2 == IF Len(firstLine) > MaxFirstLineLength THEN << "length" >> ELSE << >>
         IN  [valid |-> (e1 \o e2 = << >>), errors |-> e1 \o e2]

---------------------------------------------------------------------------
(* git_commit (tools/git-commit.tool.ts) *)

\* the result built in the catch block of git_commit: the suggestion is
\* passed on as it is, undefined included
GcCaughtResult(error) ==
    ErrorToolResult(
        IF IsSome(error.code) THEN Val(error.code) ELSE "UNKNOWN_ERROR",
        IF IsSome(error.recoverable) THEN Val(error.recoverable) ELSE TRUE,
        error.suggestion)

\* the success result of git_commit: commitHash is "unknown" when
\* rev-parse failed, commitDetails is set when git log succeeded
GcSuccessResult(hashKnown, hasDetails) ==
    [success  |-> TRUE,
     data     |-> Some([hashKnown |-> hashKnown, commitDetails |-> hasDetails]),
     error    |-> None,
     warnings |-> << >>]

GcCatch(error) ==
    /\ pending' = Some(GcCaughtResult(error))
    /\ pc' = "gc_finally"
    /\ caught' = Some(error)

\* the agent calls git_commit: entry up to the await on validateGitRepo
GcCall ==
    /\ pc = "idle"
    /\ \E r \in CommitRequests : req' = r
    /\ args' = << >>
    /\ commitMessageFile' = None
    /\ warnings' = << >>
    /\ pending' = None
    /\ result' = None
    /\ startTime' = 0
    /\ spawns' = << Spawn("validateGitRepo", << s_revparse, s_gitdir >>) >>
    /\ classified' = << >>
    /\ log' = << >>
    /\ files0' = files
    /\ cleanup' = "none"
    /\ pc' = "gc_validateGitRepo"
    /\ UNCHANGED << files, now >>
    /\ steps' = << Step("validateGitRepo") >>
    /\ UNCHANGED partialResults
    /\ UNCHANGED caught
    /\ UNCHANGED execaResult

GcRepoCheckFails ==
    /\ pc = "gc_validateGitRepo"
    /\ GcCatch(GitError("NOT_GIT_REPO", FALSE, "git init"))
    /\ UNCHANGED << req, args, commitMessageFile, warnings, result, files, now,
                    startTime, spawns, classified, log, files0, cleanup >>
    /\ UNCHANGED << steps, partialResults >>
    /\ UNCHANGED execaResult

\* git_commit without the validation gate
GcRepoCheckPasses_noValidation ==
    /\ pc = "gc_validateGitRepo"
    /\ spawns' = Append(spawns, Spawn("executeGitCommand",
                                      << s_diff, s_cached, s_nameonly >>))
    /\ steps' = Append(steps, Step("stagedCheck"))
    /\ pc' = "gc_stagedCheck"
    /\ UNCHANGED << pending, caught >>
    /\ UNCHANGED << req, args, commitMessageFile, warnings, result, files, now,
                    startTime, classified, log, files0, cleanup >>
    /\ UNCHANGED partialResults
    /\ UNCHANGED execaResult

\* validateGitRepo resolves; the message is validated unless validate is
\* false; then `git diff --cached --name-only` is spawned
GcRepoCheckPasses ==
    /\ pc = "gc_validateGitRepo"
    /\ LET validated == IF req.validate # Some(FALSE)
                        THEN Append(steps, Step("validateCommitMessage"))
                        ELSE steps IN
       IF req.validate # Some(FALSE) /\ ~validateCommitMessage(Val(req.commitMessage)).valid
       THEN /\ GcCatch(GitError("INVALID_COMMIT_MESSAGE", TRUE,
                                validateCommitMessage(Val(req.commitMessage)).errors))
            /\ steps' = validated
            /\ UNCHANGED spawns
       ELSE /\ spawns' = Append(spawns, Spawn("executeGitCommand",
                                              << s_diff, s_cached, s_nameonly >>))
            /\ steps' = Append(validated, Step("stagedCheck"))
            /\ pc' = "gc_stagedCheck"
            /\ UNCHANGED << pending, caught >>
    /\ UNCHANGED << req, args, commitMessageFile, warnings, result, files, now,
                    startTime, classified, log, files0, cleanup >>
    /\ UNCHANGED partialResults
    /\ UNCHANGED execaResult

\* the staged check fails: executeGitCommand throws GIT_COMMAND_FAILED
GcStagedCheckFails ==
    /\ pc = "gc_stagedCheck"
    /\ GcCatch(GitError("GIT_COMMAND_FAILED", TRUE, "Check git status and try again"))
    /\ UNCHANGED << req, args, commitMessageFile, warnings, result, files, now,
                    startTime, spawns, classified, log, files0, cleanup >>
    /\ UNCHANGED << steps, partialResults >>
    /\ UNCHANGED execaResult

\* the staged check prints nothing
GcNothingStaged ==
    /\ pc = "gc_stagedCheck"
    /\ GcCatch(GitError("NO_STAGED_CHANGES", TRUE, "Stage changes with git_add before committing"))
    /\ steps' = Append(steps, Step("nothingStaged"))
    /\ UNCHANGED << req, args, commitMessageFile, warnings, result, files, now,
                    startTime, spawns, classified, log, files0, cleanup >>
    /\ UNCHANGED partialResults
    /\ UNCHANGED execaResult

\* the staged check lists files: the temporary path is chosen and the
\* write is started
GcStagedFound ==
    /\ pc = "gc_stagedCheck"
    /\ commitMessageFile' = Some(TempPath(now))
    /\ steps' = Append(steps, Step("stagedFound"))
    /\ pc' = "gc_writeFile"
    /\ UNCHANGED << req, args, warnings, pending, result, files, now,
                    startTime, spawns, classified, log, files0, cleanup >>
    /\ UNCHANGED partialResults
    /\ UNCHANGED caught
    /\ UNCHANGED execaResult

\* fs.writeFile resolves; `git commit -F <file>` is spawned
GcWriteSucceeds ==
    /\ pc = "gc_writeFile"
    /\ files' = WriteFile(files, Val(commitMessageFile), Val(req.commitMessage))
    /\ spawns' = Append(spawns, Spawn("executeGitCommand",
                                      << s_commit, s_F, Val(commitMessageFile) >>))
    /\ pc' = "gc_commit"
    /\ UNCHANGED << req, args, commitMessageFile, warnings, pending, result, now,
                    startTime, classified, log, files0, cleanup >>
    /\ UNCHANGED << steps, partialResults >>
    /\ UNCHANGED caught
    /\ UNCHANGED execaResult

GcWriteFails ==
    /\ pc = "gc_writeFile"
    /\ \E created \in BOOLEAN :
         files' = IF created THEN TruncateFile(files, Val(commitMessageFile)) ELSE files
    /\ GcCatch(FsError)
    /\ UNCHANGED << req, args, commitMessageFile, warnings, result, now,
                    startTime, spawns, classified, log, files0, cleanup >>
    /\ UNCHANGED << steps, partialResults >>
    /\ UNCHANGED execaResult

\* git commit fails: executeGitCommand throws GIT_COMMAND_FAILED
GcCommitFails ==
    /\ pc = "gc_commit"
    /\ GcCatch(GitError("GIT_COMMAND_FAILED", TRUE, "Check git status and try again"))
    /\ UNCHANGED << req, args, commitMessageFile, warnings, result, files, now,
                    startTime, spawns, classified, log, files0, cleanup >>
    /\ UNCHANGED << steps, partialResults >>
    /\ UNCHANGED execaResult

\* git commit succeeds; `git rev-parse HEAD` is spawned
GcCommitSucceeds ==
    /\ pc = "gc_commit"
    /\ spawns' = Append(spawns, Spawn("executeGitCommand", << s_revparse, s_HEAD >>))
    /\ pc' = "gc_revParse"
    /\ UNCHANGED << req, args, commitMessageFile, warnings, pending, result, files, now,
                    startTime, classified, log, files0, cleanup >>
    /\ UNCHANGED << steps, partialResults >>
    /\ UNCHANGED caught
    /\ UNCHANGED execaResult

\* rev-parse ends (required: false, so it never throws); `git log -1` is
\* spawned.  hashResult.success is kept in `warnings` until the result is built
GcRevParseDone ==
    /\ pc = "gc_revParse"
    /\ \E hashSuccess \in BOOLEAN : warnings' = << hashSuccess >>
    /\ spawns' = Append(spawns, Spawn("executeGitCommand", << s_log, s_minus1, s_prettyfmt >>))
    /\ pc' = "gc_log"
    /\ UNCHANGED << req, args, commitMessageFile, pending, result, files, now,
                    startTime, classified, log, files0, cleanup >>
    /\ UNCHANGED << steps, partialResults >>
    /\ UNCHANGED caught
    /\ UNCHANGED execaResult

\* git log ends (required: false); the success result is built
GcLogDone ==
    /\ pc = "gc_log"
    /\ \E logSuccess \in BOOLEAN :
         pending' = Some(GcSuccessResult(warnings[1], logSuccess))
    /\ pc' = "gc_finally"
    /\ UNCHANGED << req, args, commitMessageFile, warnings, result, files, now,
                    startTime, spawns, classified, log, files0, cleanup >>
    /\ UNCHANGED << steps, partialResults >>
    /\ UNCHANGED caught
    /\ UNCHANGED execaResult

GcFinallyNoFile ==
    /\ pc = "gc_finally"
    /\ commitMessageFile = None
    /\ result' = pending
    /\ pc' = "returned"
    /\ UNCHANGED << req, args, commitMessageFile, warnings, pending, files, now,
                    startTime, spawns, classified, log, files0, cleanup >>
    /\ UNCHANGED << steps, partialResults >>
    /\ UNCHANGED caught
    /\ UNCHANGED execaResult

GcUnlinkSucceeds ==
    /\ pc = "gc_finally"
    /\ commitMessageFile # None
    /\ FileExists(files, Val(commitMessageFile))
    /\ files' = Unlink(files, Val(commitMessageFile))
    /\ result' = pending
    /\ pc' = "returned"
    /\ cleanup' = "unlinked"
    /\ UNCHANGED << req, args, commitMessageFile, warnings, pending, now,
                    startTime, spawns, classified, log, files0 >>
    /\ UNCHANGED << steps, partialResults >>
    /\ UNCHANGED caught
    /\ UNCHANGED execaResult

GcUnlinkFails ==
    /\ pc = "gc_finally"
    /\ commitMessageFile # None
    /\ result' = pending
    /\ pc' = "returned"
    /\ cleanup' = "unlinkFailed"
    /\ UNCHANGED << req, args, commitMessageFile, warnings, pending, files, now,
                    startTime, spawns, classified, log, files0 >>
    /\ UNCHANGED << steps, partialResults >>
    /\ UNCHANGED caught
    /\ UNCHANGED execaResult

---------------------------------------------------------------------------
(* Words used by git_status, git_diff and git_add *)

s_config == << "c", "o", "n", "f", "i", "g" >>
s_global == << "-", "-", "g", "l", "o", "b", "a", "l" >>
s_pagerdiff == << "p", "a", "g", "e", "r", ".", "d", "i", "f", "f" >>
s_false == << "f", "a", "l", "s", "e" >>
s_porcelain == << "-", "-", "p", "o", "r", "c", "e", "l", "a", "i", "n" >>
s_branch == << "b", "r", "a", "n", "c", "h" >>
s_showcurrent == << "-", "-", "s", "h", "o", "w", "-", "c", "u", "r", "r", "e", "n", "t" >>
s_nopager == << "-", "-", "n", "o", "-", "p", "a", "g", "e", "r" >>
s_dashdash == << "-", "-" >>
s_add == << "a", "d", "d" >>
s_dot == << "." >>
f_a == << "a", ".", "t", "s" >>
f_b == << "b", ".", "t", "s" >>

\* path.resolve of a relative path, as fs.access resolves it
ResolvePath(p) == Cwd \o << "/" >> \o p

\* the working directory before the first call: f_a is there, f_b is not
WorkingTree == [p \in { ResolvePath(f_a) } |-> << "x" >>]

---------------------------------------------------------------------------
(* git_status (tools/git-status.tool.ts) *)

StatusRequests == { [tool |-> "git_status"] }

\* the catch block handing back the data collected so far with the error
StCaughtResult_keepData(error) ==
    [success  |-> FALSE,
     data     |-> Some("status output"),
     error    |-> Some([code |-> IF IsSome(error.code) THEN Val(error.code)
                                 ELSE "UNKNOWN_ERROR",
                        recoverable |-> IF IsSome(error.recoverable)
                                        THEN Val(error.recoverable) ELSE TRUE,
                        suggestion |-> error.suggestion]),
     warnings |-> << >>]

\* the result built in the catch block of git_status
StCaughtResult(error) ==
    ErrorToolResult(
        IF IsSome(error.code) THEN Val(error.code) ELSE "UNKNOWN_ERROR",
        IF IsSome(error.recoverable) THEN Val(error.recoverable) ELSE TRUE,
        error.suggestion)

\* `results` when git_status returns it: data is the joined output,
\* warnings is always an array, partialResults holds what was collected
StSuccessResult(w, pr) ==
    [success        |-> TRUE,
     data           |-> Some("status output"),
     error          |-> None,
     warnings       |-> w,
     partialResults |-> pr]

\* the agent calls git_status: entry up to the await on validateGitRepo
StCall ==
    /\ pc = "idle"
    /\ \E r \in StatusRequests : req' = r
    /\ args' = << >>
    /\ commitMessageFile' = None
    /\ warnings' = << >>
    /\ pending' = None
    /\ result' = None
    /\ startTime' = 0
    /\ spawns' = << Spawn("validateGitRepo", << s_revparse, s_gitdir >>) >>
    /\ classified' = << >>
    /\ log' = << >>
    /\ files0' = files
    /\ cleanup' = "none"
    /\ steps' = << >>
    /\ partialResults' = None
    /\ pc' = "st_validateGitRepo"
    /\ UNCHANGED << files, now >>
    /\ UNCHANGED caught
    /\ UNCHANGED execaResult

\* validateGitRepo throws NOT_GIT_REPO
StRepoCheckFails ==
    /\ pc = "st_validateGitRepo"
    /\ result' = Some(StCaughtResult(GitError("NOT_GIT_REPO", FALSE, "git init")))
    /\ pc' = "returned"
    /\ UNCHANGED << req, args, commitMessageFile, warnings, pending, files,
                    now, startTime, spawns, classified, log, files0, cleanup,
                    steps, partialResults >>
    /\ caught' = Some(GitError("NOT_GIT_REPO", FALSE, "git init"))
    /\ UNCHANGED execaResult

\* validateGitRepo resolves: `results` is created and the pager is configured
StRepoCheckPasses ==
    /\ pc = "st_validateGitRepo"
    /\ warnings' = << >>
    /\ partialResults' = Some({})
    /\ spawns' = Append(spawns, Spawn("executeGitCommand", << s_config, s_global, s_pagerdiff, s_false >>))
    /\ pc' = "st_pager"
    /\ UNCHANGED << req, args, commitMessageFile, pending, result, files,
                    now, startTime, classified, log, files0, cleanup, steps >>
    /\ UNCHANGED caught
    /\ UNCHANGED execaResult

\* the pager configuration ends (required: false): a failure adds a warning;
\* `git status --porcelain` is spawned
StPagerDone ==
    /\ pc = "st_pager"
    /\ \E ok \in BOOLEAN :
         warnings' = IF ok THEN warnings ELSE Append(warnings, "Could not configure pager")
    /\ spawns' = Append(spawns, Spawn("executeGitCommand", << s_status, s_porcelain >>))
    /\ pc' = "st_status"
    /\ UNCHANGED << req, args, commitMessageFile, pending, result, files,
                    now, startTime, classified, log, files0, cleanup, steps,
                    partialResults >>
    /\ UNCHANGED caught
    /\ UNCHANGED execaResult

\* git status fails: executeGitCommand throws GIT_COMMAND_FAILED
StStatusFails ==
    /\ pc = "st_status"
    /\ result' = Some(StCaughtResult(GitError("GIT_COMMAND_FAILED", TRUE, "Check git status and try again")))
    /\ pc' = "returned"
    /\ UNCHANGED << req, args, commitMessageFile, warnings, pending, files,
                    now, startTime, spawns, classified, log, files0, cleanup,
                    steps, partialResults >>
    /\ caught' = Some(GitError("GIT_COMMAND_FAILED", TRUE, "Check git status and try again"))
    /\ UNCHANGED execaResult

\* git status succeeds; `git diff --name-only` is spawned
StStatusSucceeds ==
    /\ pc = "st_status"
    /\ partialResults' = Some(Val(partialResults) \cup {"status"})
    /\ spawns' = Append(spawns, Spawn("executeGitCommand", << s_diff, s_nameonly >>))
    /\ pc' = "st_diff"
    /\ UNCHANGED << req, args, commitMessageFile, warnings, pending, result,
                    files, now, startTime, classified, log, files0, cleanup,
                    steps >>
    /\ UNCHANGED caught
    /\ UNCHANGED execaResult

\* git diff fails: executeGitCommand throws GIT_COMMAND_FAILED
StDiffFails ==
    /\ pc = "st_diff"
    /\ result' = Some(StCaughtResult(GitError("GIT_COMMAND_FAILED", TRUE, "Check git status and try again")))
    /\ pc' = "returned"
    /\ UNCHANGED << req, args, commitMessageFile, warnings, pending, files,
                    now, startTime, spawns, classified, log, files0, cleanup,
                    steps, partialResults >>
    /\ caught' = Some(GitError("GIT_COMMAND_FAILED", TRUE, "Check git status and try again"))
    /\ UNCHANGED execaResult

\* git diff succeeds; `git diff --name-only --cached` is spawned
StDiffSucceeds ==
    /\ pc = "st_diff"
    /\ partialResults' = Some(Val(partialResults) \cup {"changedFiles"})
    /\ spawns' = Append(spawns, Spawn("executeGitCommand", << s_diff, s_nameonly, s_cached >>))
    /\ pc' = "st_cached"
    /\ UNCHANGED << req, args, commitMessageFile, warnings, pending, result,
                    files, now, startTime, classified, log, files0, cleanup,
                    steps >>
    /\ UNCHANGED caught
    /\ UNCHANGED execaResult

\* the staged diff fails: executeGitCommand throws GIT_COMMAND_FAILED
StCachedFails ==
    /\ pc = "st_cached"
    /\ result' = Some(StCaughtResult(GitError("GIT_COMMAND_FAILED", TRUE, "Check git status and try again")))
    /\ pc' = "returned"
    /\ UNCHANGED << req, args, commitMessageFile, warnings, pending, files,
                    now, startTime, spawns, classified, log, files0, cleanup,
                    steps, partialResults >>
    /\ caught' = Some(GitError("GIT_COMMAND_FAILED", TRUE, "Check git status and try again"))
    /\ UNCHANGED execaResult

\* the staged diff succeeds; `git branch --show-current` is spawned
StCachedSucceeds ==
    /\ pc = "st_cached"
    /\ partialResults' = Some(Val(partialResults) \cup {"stagedFiles"})
    /\ spawns' = Append(spawns, Spawn("executeGitCommand", << s_branch, s_showcurrent >>))
    /\ pc' = "st_branch"
    /\ UNCHANGED << req, args, commitMessageFile, warnings, pending, result,
                    files, now, startTime, classified, log, files0, cleanup,
                    steps >>
    /\ UNCHANGED caught
    /\ UNCHANGED execaResult

\* git branch ends (required: false); the success result is returned
StBranchDone ==
    /\ pc = "st_branch"
    /\ \E ok \in BOOLEAN :
         LET pr == IF ok THEN Some(Val(partialResults) \cup {"currentBranch"})
                         ELSE partialResults
         IN  /\ partialResults' = pr
             /\ result' = Some(StSuccessResult(warnings, pr))
    /\ pc' = "returned"
    /\ UNCHANGED << req, args, commitMessageFile, warnings, pending, files,
                    now, startTime, spawns, classified, log, files0, cleanup,
                    steps >>
    /\ UNCHANGED caught
    /\ UNCHANGED execaResult

---------------------------------------------------------------------------
(* git_diff (tools/git-diff.tool) *)

\* files: undefined, [], one file
DiffRequests ==
    [tool : {"git_diff"}, files : { None, Some(<< >>), Some(<< f_a >>) }]

\* `if (files && files.length > 0) xArgs.push("--", ...files)`
FileArgs(optFiles) ==
    IF IsSome(optFiles) /\ Len(Val(optFiles)) > 0
    THEN << s_dashdash >> \o Val(optFiles)
    ELSE << >>

\* the result built in the catch block of git_diff
DfCaughtResult(error) ==
    ErrorToolResult(
        IF IsSome(error.code) THEN Val(error.code) ELSE "UNKNOWN_ERROR",
        IF IsSome(error.recoverable) THEN Val(error.recoverable) ELSE TRUE,
        error.suggestion)

\* `results` when git_diff returns it: warnings is set for a large diff
DfSuccessResult(large) ==
    [success        |-> TRUE,
     data           |-> Some("diff output"),
     error          |-> None,
     warnings       |-> IF large THEN << "Large diff detected" >> ELSE << >>,
     partialResults |-> Some({})]

\* the agent calls git_diff: entry up to the await on validateGitRepo
DfCall ==
    /\ pc = "idle"
    /\ \E r \in DiffRequests : req' = r
    /\ args' = << >>
    /\ commitMessageFile' = None
    /\ warnings' = << >>
    /\ pending' = None
    /\ result' = None
    /\ startTime' = 0
    /\ spawns' = << Spawn("validateGitRepo", << s_revparse, s_gitdir >>) >>
    /\ classified' = << >>
    /\ log' = << >>
    /\ files0' = files
    /\ cleanup' = "none"
    /\ steps' = << >>
    /\ partialResults' = None
    /\ pc' = "df_validateGitRepo"
    /\ UNCHANGED << files, now >>
    /\ UNCHANGED caught
    /\ UNCHANGED execaResult

\* validateGitRepo throws NOT_GIT_REPO
DfRepoCheckFails ==
    /\ pc = "df_validateGitRepo"
    /\ result' = Some(DfCaughtResult(GitError("NOT_GIT_REPO", FALSE, "git init")))
    /\ pc' = "returned"
    /\ UNCHANGED << req, args, commitMessageFile, warnings, pending, files,
                    now, startTime, spawns, classified, log, files0, cleanup,
                    steps, partialResults >>
    /\ caught' = Some(GitError("NOT_GIT_REPO", FALSE, "git init"))
    /\ UNCHANGED execaResult

\* validateGitRepo resolves; `git --no-pager diff` is spawned
DfRepoCheckPasses ==
    /\ pc = "df_validateGitRepo"
    /\ spawns' = Append(spawns, Spawn("executeGitCommand", << s_nopager, s_diff >> \o FileArgs(req.files)))
    /\ pc' = "df_unstaged"
    /\ UNCHANGED << req, args, commitMessageFile, warnings, pending, result,
                    files, now, startTime, classified, log, files0, cleanup,
                    steps, partialResults >>
    /\ UNCHANGED caught
    /\ UNCHANGED execaResult

\* the unstaged diff fails: executeGitCommand throws GIT_COMMAND_FAILED
DfUnstagedFails ==
    /\ pc = "df_unstaged"
    /\ result' = Some(DfCaughtResult(GitError("GIT_COMMAND_FAILED", TRUE, "Check git status and try again")))
    /\ pc' = "returned"
    /\ UNCHANGED << req, args, commitMessageFile, warnings, pending, files,
                    now, startTime, spawns, classified, log, files0, cleanup,
                    steps, partialResults >>
    /\ caught' = Some(GitError("GIT_COMMAND_FAILED", TRUE, "Check git status and try again"))
    /\ UNCHANGED execaResult

\* the unstaged diff succeeds; `git diff --cached` is spawned
DfUnstagedSucceeds ==
    /\ pc = "df_unstaged"
    /\ spawns' = Append(spawns, Spawn("executeGitCommand", << s_diff, s_cached >> \o FileArgs(req.files)))
    /\ pc' = "df_staged"
    /\ UNCHANGED << req, args, commitMessageFile, warnings, pending, result,
                    files, now, startTime, classified, log, files0, cleanup,
                    steps, partialResults >>
    /\ UNCHANGED caught
    /\ UNCHANGED execaResult

\* the staged diff fails: executeGitCommand throws GIT_COMMAND_FAILED
DfStagedFails ==
    /\ pc = "df_staged"
    /\ result' = Some(DfCaughtResult(GitError("GIT_COMMAND_FAILED", TRUE, "Check git status and try again")))
    /\ pc' = "returned"
    /\ UNCHANGED << req, args, commitMessageFile, warnings, pending, files,
                    now, startTime, spawns, classified, log, files0, cleanup,
                    steps, partialResults >>
    /\ caught' = Some(GitError("GIT_COMMAND_FAILED", TRUE, "Check git status and try again"))
    /\ UNCHANGED execaResult

\* the staged diff succeeds; `git diff --stat` is spawned
DfStagedSucceeds ==
    /\ pc = "df_staged"
    /\ spawns' = Append(spawns, Spawn("executeGitCommand", << s_diff, s_stat >> \o FileArgs(req.files)))
    /\ pc' = "df_stats"
    /\ UNCHANGED << req, args, commitMessageFile, warnings, pending, result,
                    files, now, startTime, classified, log, files0, cleanup,
                    steps, partialResults >>
    /\ UNCHANGED caught
    /\ UNCHANGED execaResult

\* git diff --stat ends (required: false); the success result is returned,
\* with a warning when the two diffs have more than 1000 lines
DfStatsDone ==
    /\ pc = "df_stats"
    /\ \E ok, large \in BOOLEAN : result' = Some(DfSuccessResult(large))
    /\ pc' = "returned"
    /\ UNCHANGED << req, args, commitMessageFile, warnings, pending, files,
                    now, startTime, spawns, classified, log, files0, cleanup,
                    steps, partialResults >>
    /\ UNCHANGED caught
    /\ UNCHANGED execaResult

---------------------------------------------------------------------------
(* git_add (tools/git-add.tool) *)

\* files: undefined, [], one file, a missing file, a file and a missing
\* file; all: undefined, true, false
AddRequests ==
    [tool : {"git_add"},
     files : { None, Some(<< >>), Some(<< f_a >>), Some(<< f_b >>), Some(<< f_a, f_b >>) },
     all : { None, Some(TRUE), Some(FALSE) }]

\* `all || !files || files.length === 0`
AddsEverything(r) ==
    \/ r.all = Some(TRUE)
    \/ r.files = None
    \/ Len(Val(r.files)) = 0

\* the result built in the catch block of git_add
AdCaughtResult(error) ==
    ErrorToolResult(
        IF IsSome(error.code) THEN Val(error.code) ELSE "UNKNOWN_ERROR",
        IF IsSome(error.recoverable) THEN Val(error.recoverable) ELSE TRUE,
        error.suggestion)

\* the result returned when the repository is clean
AdCleanResult ==
    [success  |-> TRUE,
     data     |-> Some("No changes to stage"),
     error    |-> None,
     warnings |-> << "Repository is clean, nothing to add" >>]

\* the result returned after staging
AdSuccessResult ==
    [success  |-> TRUE,
     data     |-> Some("Changes staged successfully"),
     error    |-> None,
     warnings |-> << >>]

\* the agent calls git_add: entry up to the await on validateGitRepo
AdCall ==
    /\ pc = "idle"
    /\ \E r \in AddRequests : req' = r
    /\ args' = << >>
    /\ commitMessageFile' = None
    /\ warnings' = << >>
    /\ pending' = None
    /\ result' = None
    /\ startTime' = 0
    /\ spawns' = << Spawn("validateGitRepo", << s_revparse, s_gitdir >>) >>
    /\ classified' = << >>
    /\ log' = << >>
    /\ files0' = files
    /\ cleanup' = "none"
    /\ steps' = << >>
    /\ partialResults' = None
    /\ pc' = "ad_validateGitRepo"
    /\ UNCHANGED << files, now >>
    /\ UNCHANGED caught
    /\ UNCHANGED execaResult

\* validateGitRepo throws NOT_GIT_REPO
AdRepoCheckFails ==
    /\ pc = "ad_validateGitRepo"
    /\ result' = Some(AdCaughtResult(GitError("NOT_GIT_REPO", FALSE, "git init")))
    /\ pc' = "returned"
    /\ UNCHANGED << req, args, commitMessageFile, warnings, pending, files,
                    now, startTime, spawns, classified, log, files0, cleanup,
                    steps, partialResults >>
    /\ caught' = Some(GitError("NOT_GIT_REPO", FALSE, "git init"))
    /\ UNCHANGED execaResult

\* validateGitRepo resolves; `git status --porcelain` is spawned
AdRepoCheckPasses ==
    /\ pc = "ad_validateGitRepo"
    /\ spawns' = Append(spawns, Spawn("executeGitCommand", << s_status, s_porcelain >>))
    /\ pc' = "ad_status"
    /\ UNCHANGED << req, args, commitMessageFile, warnings, pending, result,
                    files, now, startTime, classified, log, files0, cleanup,
                    steps, partialResults >>
    /\ UNCHANGED caught
    /\ UNCHANGED execaResult

\* the status check fails: executeGitCommand throws GIT_COMMAND_FAILED
AdStatusFails ==
    /\ pc = "ad_status"
    /\ result' = Some(AdCaughtResult(GitError("GIT_COMMAND_FAILED", TRUE, "Check git status and try again")))
    /\ pc' = "returned"
    /\ UNCHANGED << req, args, commitMessageFile, warnings, pending, files,
                    now, startTime, spawns, classified, log, files0, cleanup,
                    steps, partialResults >>
    /\ caught' = Some(GitError("GIT_COMMAND_FAILED", TRUE, "Check git status and try again"))
    /\ UNCHANGED execaResult

\* the status check prints nothing: nothing to stage
AdStatusClean ==
    /\ pc = "ad_status"
    /\ result' = Some(AdCleanResult)
    /\ pc' = "returned"
    /\ UNCHANGED << req, args, commitMessageFile, warnings, pending, files,
                    now, startTime, spawns, classified, log, files0, cleanup,
                    steps, partialResults >>
    /\ UNCHANGED caught
    /\ UNCHANGED execaResult

\* there are changes: addArgs is ["add", "."] and git add is spawned, or the
\* listed files are checked one by one (`args` holds addArgs)
AdStatusDirty ==
    /\ pc = "ad_status"
    /\ IF AddsEverything(req)
       THEN /\ args' = << s_add, s_dot >>
            /\ spawns' = Append(spawns, Spawn("executeGitCommand", << s_add, s_dot >>))
            /\ pc' = "ad_add"
       ELSE /\ args' = << s_add >>
            /\ pc' = "ad_access"
            /\ UNCHANGED spawns
    /\ UNCHANGED << req, commitMessageFile, warnings, pending, result, files,
                    now, startTime, classified, log, files0, cleanup, steps,
                    partialResults >>
    /\ UNCHANGED caught
    /\ UNCHANGED execaResult

\* fs.access resolves for the next listed file; after the last one the
\* files are pushed on addArgs and git add is spawned
AdAccessSucceeds ==
    /\ pc = "ad_access"
    /\ FileExists(files, ResolvePath(Val(req.files)[Len(steps) + 1]))
    /\ steps' = Append(steps, Step("access"))
    /\ IF Len(steps) + 1 = Len(Val(req.files))
       THEN /\ args' = << s_add >> \o Val(req.files)
            /\ spawns' = Append(spawns, Spawn("executeGitCommand",
                                              << s_add >> \o Val(req.files)))
            /\ pc' = "ad_add"
       ELSE UNCHANGED << args, spawns, pc >>
    /\ UNCHANGED << req, commitMessageFile, warnings, pending, result, files,
                    now, startTime, classified, log, files0, cleanup,
                    partialResults >>
    /\ UNCHANGED caught
    /\ UNCHANGED execaResult

\* the loop without the existence check: every listed file is pushed
AdAccessFails_unchecked ==
    /\ pc = "ad_access"
    /\ steps' = Append(steps, Step("access"))
    /\ args' = << s_add >> \o Val(req.files)
    /\ spawns' = Append(spawns, Spawn("executeGitCommand", << s_add >> \o Val(req.files)))
    /\ pc' = "ad_add"
    /\ UNCHANGED << req, commitMessageFile, warnings, pending, result, files,
                    now, startTime, classified, log, files0, cleanup,
                    partialResults >>
    /\ UNCHANGED caught
    /\ UNCHANGED execaResult

\* fs.access rejects for the next listed file, which is missing or cannot
\* be reached: FILE_NOT_FOUND is thrown
AdAccessFails ==
    /\ pc = "ad_access"
    /\ steps' = Append(steps, Step("accessFailed"))
    /\ result' = Some(AdCaughtResult(GitError("FILE_NOT_FOUND", TRUE, "Check the file path and try again")))
    /\ pc' = "returned"
    /\ UNCHANGED << req, args, commitMessageFile, warnings, pending, files,
                    now, startTime, spawns, classified, log, files0, cleanup,
                    partialResults >>
    /\ caught' = Some(GitError("FILE_NOT_FOUND", TRUE, "Check the file path and try again"))
    /\ UNCHANGED execaResult

\* git add fails: executeGitCommand throws GIT_COMMAND_FAILED
AdAddFails ==
    /\ pc = "ad_add"
    /\ result' = Some(AdCaughtResult(GitError("GIT_COMMAND_FAILED", TRUE, "Check git status and try again")))
    /\ pc' = "returned"
    /\ UNCHANGED << req, args, commitMessageFile, warnings, pending, files,
                    now, startTime, spawns, classified, log, files0, cleanup,
                    steps, partialResults >>
    /\ caught' = Some(GitError("GIT_COMMAND_FAILED", TRUE, "Check git status and try again"))
    /\ UNCHANGED execaResult

\* git add succeeds; `git diff --name-only --cached` is spawned
AdAddSucceeds ==
    /\ pc = "ad_add"
    /\ spawns' = Append(spawns, Spawn("executeGitCommand", << s_diff, s_nameonly, s_cached >>))
    /\ pc' = "ad_verify"
    /\ UNCHANGED << req, args, commitMessageFile, warnings, pending, result,
                    files, now, startTime, classified, log, files0, cleanup,
                    steps, partialResults >>
    /\ UNCHANGED caught
    /\ UNCHANGED execaResult

\* the verification ends (required: false); the success result is returned
AdVerifyDone ==
    /\ pc = "ad_verify"
    /\ \E ok \in BOOLEAN : result' = Some(AdSuccessResult)
    /\ pc' = "returned"
    /\ UNCHANGED << req, args, commitMessageFile, warnings, pending, files,
                    now, startTime, spawns, classified, log, files0, cleanup,
                    steps, partialResults >>
    /\ UNCHANGED caught
    /\ UNCHANGED execaResult

---------------------------------------------------------------------------
(* The agent loop: one tool call at a time *)

Init ==
    /\ pc = "idle"
    /\ req = NoRequest
    /\ args = << >>
    /\ commitMessageFile = None
    /\ warnings = << >>
    /\ pending = None
    /\ result = None
    /\ files = WorkingTree
    /\ now = 0
    /\ startTime = 0
    /\ spawns = << >>
    /\ classified = << >>
    /\ log = << >>
    /\ files0 = NoFiles
    /\ cleanup = "none"
    /\ steps = << >>
    /\ partialResults = None
    /\ caught = None
    /\ execaResult = None

Next ==
    \/ Call
    \/ RepoCheckFails
    \/ RepoCheckPasses
    \/ WriteSucceeds
    \/ WriteFails
    \/ ExecaExits
    \/ ExecaTimesOut
    \/ ExecaThrows
    \/ FinallyNoFile
    \/ UnlinkSucceeds
    \/ UnlinkFails
    \/ GcCall
    \/ GcRepoCheckFails
    \/ GcRepoCheckPasses
    \/ GcStagedCheckFails
    \/ GcNothingStaged
    \/ GcStagedFound
    \/ GcWriteSucceeds
    \/ GcWriteFails
    \/ GcCommitFails
    \/ GcCommitSucceeds
    \/ GcRevParseDone
    \/ GcLogDone
    \/ GcFinallyNoFile
    \/ GcUnlinkSucceeds
    \/ GcUnlinkFails
    \/ StCall
    \/ StRepoCheckFails
    \/ StRepoCheckPasses
    \/ StPagerDone
    \/ StStatusFails
    \/ StStatusSucceeds
    \/ StDiffFails
    \/ StDiffSucceeds
    \/ StCachedFails
    \/ StCachedSucceeds
    \/ StBranchDone
    \/ DfCall
    \/ DfRepoCheckFails
    \/ DfRepoCheckPasses
    \/ DfUnstagedFails
    \/ DfUnstagedSucceeds
    \/ DfStagedFails
    \/ DfStagedSucceeds
    \/ DfStatsDone
    \/ AdCall
    \/ AdRepoCheckFails
    \/ AdRepoCheckPasses
    \/ AdStatusFails
    \/ AdStatusClean
    \/ AdStatusDirty
    \/ AdAccessSucceeds
    \/ AdAccessFails
    \/ AdAddFails
    \/ AdAddSucceeds
    \/ AdVerifyDone
    \/ Done

Spec == Init /\ [][Next]_vars

\* What an invocation of execute_git_command may rely on: the event loop
\* runs every continuation that is ready; the repository probe and the
\* file-system calls settle; the timer of `timeout: 30000` fires while the
\* command subprocess is still awaited. Nothing is assumed of the command
\* subprocess itself: it may never exit.
Fairness ==
    /\ WF_vars(RepoCheckFails \/ RepoCheckPasses)
    /\ WF_vars(WriteSucceeds \/ WriteFails)
    /\ WF_vars(ExecaTimesOut)
    /\ WF_vars(FinallyNoFile)
    /\ WF_vars(UnlinkSucceeds \/ UnlinkFails)

SpecLive == Init /\ [][Next]_vars /\ Fairness

---------------------------------------------------------------------------
(* execute_git_command with a running clock: Date.now() advances while the
   handler waits at an await. The requests are the unflagged calls of every
   command, with and without a commit message. *)

TimedRequests ==
    { r \in MasterRequests :
        /\ r.args = << >>
        /\ ~r.allowDangerous
        /\ r.commitMessage \in { None, Some(m_multiline) } }

CallTimed == CallWith(TimedRequests)

\* a millisecond passes while the handler awaits the repository probe, the
\* write of the message file, the command subprocess or the unlink
Tick ==
    /\ pc \in { "validateGitRepo", "writeFile", "execa", "finally" }
    /\ now < MaxClock
    /\ now' = now + 1
    /\ UNCHANGED << pc, req, args, commitMessageFile, warnings, pending, result,
                    files, startTime, spawns, classified, log, files0, cleanup,
                    steps, partialResults, caught, execaResult >>

NextTime ==
    \/ CallTimed
    \/ Tick
    \/ RepoCheckFails
    \/ RepoCheckPasses
    \/ WriteSucceeds
    \/ WriteFails
    \/ ExecaExits
    \/ ExecaTimesOut
    \/ ExecaThrows
    \/ FinallyNoFile
    \/ UnlinkSucceeds
    \/ UnlinkFails
    \/ Done

SpecTime == Init /\ [][NextTime]_vars

---------------------------------------------------------------------------
(* validateCommandSyntax on its own: the argument list is drawn, then the
   function is applied to it *)

NormAlphabet == { s_unified, s_since, s_stat, s_p, s_3, s_empty, s_unified3 }

NormRequests ==
    [tool : {"validateCommandSyntax"},
     command : {s_diff},
     args : SeqsUpTo(NormAlphabet, MaxNormArgs),
     allowDangerous : {FALSE},
     commitMessage : {None},
     validate : {None}]

InitNorm ==
    /\ pc = "norm_in"
    /\ req \in NormRequests
    /\ args = req.args
    /\ commitMessageFile = None
    /\ warnings = << >>
    /\ pending = None
    /\ result = None
    /\ files = NoFiles
    /\ now = 0
    /\ startTime = 0
    /\ spawns = << >>
    /\ classified = << >>
    /\ log = << >>
    /\ files0 = NoFiles
    /\ cleanup = "none"
    /\ steps = << >>
    /\ partialResults = None
    /\ caught = None
    /\ execaResult = None

\* args = validateCommandSyntax(command, args)
NormApply ==
    /\ pc = "norm_in"
    /\ args' = validateCommandSyntax(req.command, args)
    /\ pc' = "norm_out"
    /\ UNCHANGED << req, commitMessageFile, warnings, pending, result, files, now,
                    startTime, spawns, classified, log, files0, cleanup >>
    /\ UNCHANGED << steps, partialResults >>
    /\ UNCHANGED caught
    /\ UNCHANGED execaResult

\* the normalizer applied to its own output
NormApplyAgain ==
    /\ pc = "norm_out"
    /\ args' = validateCommandSyntax(req.command, args)
    /\ pc' = "norm_twice"
    /\ UNCHANGED << req, commitMessageFile, warnings, pending, result, files, now,
                    startTime, spawns, classified, log, files0, cleanup >>
    /\ UNCHANGED << steps, partialResults >>
    /\ UNCHANGED caught
    /\ UNCHANGED execaResult

NextNorm ==
    \/ NormApply
    \/ NormApplyAgain

SpecNorm == InitNorm /\ [][NextNorm]_vars

---------------------------------------------------------------------------
(* validateCommitMessage on its own: the message is drawn, then the function
   is applied to it. A message is a type, a scope, a separator, a
   description and a tail; the paddings bring the first line to either side
   of MaxFirstLineLength. *)

Pad(n) == [i \in 1..n |-> "a"]

VTypes == { << "f", "e", "a", "t" >>, << "c", "i" >>, << "w", "i", "p" >>, << >> }
VScopes == { << >>, << "(", "a", ")" >>, << "(", ")" >>, << "(", "\r", ")" >>, << "(", "a", ")", "(", "b", ")" >> }
VSeps == { << ":", " " >>, << ":" >>, << " " >> }
VDescs == { << >>, << "x" >>, << " " >>, << "\r" >>, << "\r", "x" >> } \cup { Pad(n) : n \in (MaxPad - 3)..MaxPad }
VTails == { << >>, << "\n" >>, << "\n", "b" >>, << "\r", "\n", "b" >> }
VBlanks == { << >>, << " " >>, << "\n" >>, << " ", "\t", "\r", "\n" >> }

ValidatorMessages ==
    { t \o sc \o sep \o d \o tl :
        t \in VTypes, sc \in VScopes, sep \in VSeps, d \in VDescs, tl \in VTails }
    \cup VBlanks

ValidatorRequests ==
    [tool : {"validateCommitMessage"},
     command : {<< >>},
     args : {<< >>},
     allowDangerous : {FALSE},
     commitMessage : { Some(m) : m \in ValidatorMessages },
     validate : {None}]

InitValidate ==
    /\ pc = "val_in"
    /\ req \in ValidatorRequests
    /\ args = << >>
    /\ commitMessageFile = None
    /\ warnings = << >>
    /\ pending = None
    /\ result = None
    /\ files = NoFiles
    /\ now = 0
    /\ startTime = 0
    /\ spawns = << >>
    /\ classified = << >>
    /\ log = << >>
    /\ files0 = NoFiles
    /\ cleanup = "none"
    /\ steps = << >>
    /\ partialResults = None
    /\ caught = None
    /\ execaResult = None

\* validateCommitMessage(message)
ValidateApply ==
    /\ pc = "val_in"
    /\ result' = Some(validateCommitMessage(Val(req.commitMessage)))
    /\ pc' = "val_out"
    /\ UNCHANGED << req, args, commitMessageFile, warnings, pending, files, now,
                    startTime, spawns, classified, log, files0, cleanup,
                    steps, partialResults, caught, execaResult >>

NextValidate == ValidateApply

SpecValidate == InitValidate /\ [][NextValidate]_vars

---------------------------------------------------------------------------
(* Two invocations of execute_git_command that commit with a commitMessage,
   running on the same event loop and working directory: each handler is
   suspended at its awaits and the other may run in between. Here pc,
   commitMessageFile, pending and cleanup hold one value per invocation;
   files and the clock are shared; spawns records, for each `git commit -F`,
   whose it is and what it found in the file. Only the steps that touch the
   temporary file are kept. *)

Invocations == { 1, 2 }

\* the two requests: commits with different messages
PairRequests ==
    << [tool |-> "execute_git_command", command |-> s_commit, args |-> << >>,
        allowDangerous |-> FALSE, commitMessage |-> Some(m_multiline), validate |-> None],
       [tool |-> "execute_git_command", command |-> s_commit, args |-> << >>,
        allowDangerous |-> FALSE, commitMessage |-> Some(m_wip), validate |-> None] >>

InitPair ==
    /\ pc = [i \in Invocations |-> "idle"]
    /\ req = PairRequests
    /\ args = << >>
    /\ commitMessageFile = [i \in Invocations |-> None]
    /\ warnings = << >>
    /\ pending = [i \in Invocations |-> None]
    /\ result = None
    /\ files = NoFiles
    /\ now = 0
    /\ startTime = 0
    /\ spawns = << >>
    /\ classified = << >>
    /\ log = << >>
    /\ files0 = NoFiles
    /\ cleanup = [i \in Invocations |-> "none"]
    /\ steps = << >>
    /\ partialResults = None
    /\ caught = None
    /\ execaResult = None

\* invocation i is called: entry up to the await on validateGitRepo
PairCall(i) ==
    /\ pc[i] = "idle"
    /\ pc' = [pc EXCEPT ![i] = "validateGitRepo"]
    /\ UNCHANGED << req, args, commitMessageFile, warnings, pending, result,
                    files, now, startTime, spawns, classified, log, files0,
                    cleanup, steps, partialResults, caught, execaResult >>

\* validateGitRepo throws: the catch block returns, no file was named
PairRepoCheckFails(i) ==
    /\ pc[i] = "validateGitRepo"
    /\ pending' = [pending EXCEPT ![i] = Some(CaughtResult(GitError("NOT_GIT_REPO", FALSE, "git init")))]
    /\ pc' = [pc EXCEPT ![i] = "returned"]
    /\ UNCHANGED << req, args, commitMessageFile, warnings, result, files,
                    now, startTime, spawns, classified, log, files0, cleanup,
                    steps, partialResults, caught, execaResult >>

\* validateGitRepo resolves: the path is built from Date.now() and the
\* write is started
PairRepoCheckPasses(i) ==
    /\ pc[i] = "validateGitRepo"
    /\ commitMessageFile' = [commitMessageFile EXCEPT ![i] = Some(TempPath(now))]
    /\ pc' = [pc EXCEPT ![i] = "writeFile"]
    /\ UNCHANGED << req, args, warnings, pending, result, files, now,
                    startTime, spawns, classified, log, files0, cleanup,
                    steps, partialResults, caught, execaResult >>

\* fs.writeFile resolves; `git commit -F <file>` is spawned
PairWriteSucceeds(i) ==
    /\ pc[i] = "writeFile"
    /\ files' = WriteFile(files, Val(commitMessageFile[i]), Val(req[i].commitMessage))
    /\ pc' = [pc EXCEPT ![i] = "execa"]
    /\ UNCHANGED << req, args, commitMessageFile, warnings, pending, result,
                    now, startTime, spawns, classified, log, files0, cleanup,
                    steps, partialResults, caught, execaResult >>

\* fs.writeFile rejects: the catch block, then finally
PairWriteFails(i) ==
    /\ pc[i] = "writeFile"
    /\ pending' = [pending EXCEPT ![i] = Some(CaughtResult(FsError))]
    /\ pc' = [pc EXCEPT ![i] = "finally"]
    /\ UNCHANGED << req, args, commitMessageFile, warnings, result, files,
                    now, startTime, spawns, classified, log, files0, cleanup,
                    steps, partialResults, caught, execaResult >>

\* git reads the message file (<< >> when it is not there) and exits
PairExecaExits(i) ==
    /\ pc[i] = "execa"
    /\ LET file == Val(commitMessageFile[i])
           found == IF FileExists(files, file) THEN Some(files[file]) ELSE None IN
         /\ spawns' = Append(spawns, [site |-> "execa", argv |-> << s_commit, s_F, file >>,
                                      who |-> i, found |-> found])
         /\ pending' = [pending EXCEPT ![i] =
                           Some(IF IsSome(found) THEN SuccessToolResult(0, 0, << >>)
                                ELSE FailedResult(Some(1)))]
    /\ pc' = [pc EXCEPT ![i] = "finally"]
    /\ UNCHANGED << req, args, commitMessageFile, warnings, result, files,
                    now, startTime, classified, log, files0, cleanup, steps,
                    partialResults, caught, execaResult >>

\* finally: fs.unlink removes the file, or rejects because it is not there
PairUnlink(i) ==
    /\ pc[i] = "finally"
    /\ LET file == Val(commitMessageFile[i]) IN
         IF FileExists(files, file)
         THEN /\ files' = Unlink(files, file)
              /\ cleanup' = [cleanup EXCEPT ![i] = "unlinked"]
         ELSE /\ files' = files
              /\ cleanup' = [cleanup EXCEPT ![i] = "unlinkFailed"]
    /\ pc' = [pc EXCEPT ![i] = "returned"]
    /\ UNCHANGED << req, args, commitMessageFile, warnings, pending, result,
                    now, startTime, spawns, classified, log, files0, steps,
                    partialResults, caught, execaResult >>

\* a millisecond passes
PairTick ==
    /\ now < MaxClock
    /\ now' = now + 1
    /\ UNCHANGED << pc, req, args, commitMessageFile, warnings, pending,
                    result, files, startTime, spawns, classified, log,
                    files0, cleanup, steps, partialResults, caught,
                    execaResult >>

NextPair ==
    \/ \E i \in Invocations : PairCall(i)
    \/ \E i \in Invocations : PairRepoCheckFails(i)
    \/ \E i \in Invocations : PairRepoCheckPasses(i)
    \/ \E i \in Invocations : PairWriteSucceeds(i)
    \/ \E i \in Invocations : PairWriteFails(i)
    \/ \E i \in Invocations : PairExecaExits(i)
    \/ \E i \in Invocations : PairUnlink(i)
    \/ PairTick

SpecPair == InitPair /\ [][NextPair]_vars

---------------------------------------------------------------------------
(* utils/git-commands: checkNeedsPull. The repository and the remote are
   drawn first: whether `git fetch` works, and what each of the four lookups
   prints (<< >> when the command fails). `args` holds the handler's locals
   currentBranch, localHash and remoteHash as they are assigned. *)

\* String.prototype.trim
RECURSIVE TrimStart(_)
TrimStart(x) ==
    IF x # << >> /\ IsWhitespace(Head(x)) THEN TrimStart(Tail(x)) ELSE x

RECURSIVE TrimEnd(_)
TrimEnd(x) ==
    IF x # << >> /\ IsWhitespace(x[Len(x)]) THEN TrimEnd(SubSeq(x, 1, Len(x) - 1)) ELSE x

Trim(x) == TrimEnd(TrimStart(x))

BranchOutputs == { << "m", "a", "i", "n" >>, << "H", "E", "A", "D" >>, << " ", "H", "E", "A", "D" >> }
HashOutputs == { << "a", "1" >>, << "b", "2" >>, << "c", "3", " " >> }

PullRequests ==
    [tool : {"checkNeedsPull"},
     fetch : BOOLEAN,
     branch : { None } \cup { Some(b) : b \in BranchOutputs },
     local : { None } \cup { Some(h) : h \in HashOutputs },
     upstream : { None } \cup { Some(h) : h \in HashOutputs },
     base : { None } \cup { Some(h) : h \in HashOutputs }]

\* the value checkNeedsPull returns (the message by its kind)
PullStatus(needsPull, canAutoPull, message) ==
    [needsPull |-> needsPull, canAutoPull |-> canAutoPull, message |-> message]

\* the comparison with the hashes swapped: ahead taken for behind
Relationship_swapped(localHash, remoteHash, baseHash) ==
    IF remoteHash = baseHash THEN PullStatus(TRUE, TRUE, "behind")
    ELSE IF localHash = baseHash THEN PullStatus(FALSE, FALSE, "ahead")
    ELSE PullStatus(TRUE, FALSE, "diverged")

\* lines 408-429: behind, ahead or diverged
Relationship(localHash, remoteHash, baseHash) ==
    IF localHash = baseHash THEN PullStatus(TRUE, TRUE, "behind")
    ELSE IF remoteHash = baseHash THEN PullStatus(FALSE, FALSE, "ahead")
    ELSE PullStatus(TRUE, FALSE, "diverged")

InitPull ==
    /\ pc = "cp_fetch"
    /\ req \in PullRequests
    /\ args = << >>
    /\ commitMessageFile = None
    /\ warnings = << >>
    /\ pending = None
    /\ result = None
    /\ files = NoFiles
    /\ now = 0
    /\ startTime = 0
    /\ spawns = << Spawn("execa", << << "f", "e", "t", "c", "h" >> >>) >>
    /\ classified = << >>
    /\ log = << >>
    /\ files0 = NoFiles
    /\ cleanup = "none"
    /\ steps = << >>
    /\ partialResults = None
    /\ caught = None
    /\ execaResult = None

\* `git fetch` ends: on failure return, else spawn the branch lookup
CpFetch ==
    /\ pc = "cp_fetch"
    /\ IF ~req.fetch
       THEN /\ result' = Some(PullStatus(FALSE, FALSE, "fetchFailed"))
            /\ pc' = "returned"
            /\ UNCHANGED << args, spawns >>
       ELSE /\ spawns' = Append(spawns, Spawn("execa", << s_revparse, << "-", "-", "a", "b", "b", "r", "e", "v", "-", "r", "e", "f" >>, s_HEAD >>))
            /\ pc' = "cp_branch"
            /\ UNCHANGED << args, result >>
    /\ UNCHANGED << req, commitMessageFile, warnings, pending, files, now,
                    startTime, classified, log, files0, cleanup, steps,
                    partialResults, caught, execaResult >>

\* `git rev-parse --abbrev-ref HEAD` ends
CpBranch ==
    /\ pc = "cp_branch"
    /\ IF req.branch = None
       THEN /\ result' = Some(PullStatus(FALSE, FALSE, "noBranch"))
            /\ pc' = "returned"
            /\ UNCHANGED << args, spawns >>
       ELSE IF Trim(Val(req.branch)) = s_HEAD
       THEN /\ result' = Some(PullStatus(FALSE, FALSE, "detached"))
            /\ pc' = "returned"
            /\ args' = << Trim(Val(req.branch)) >>
            /\ UNCHANGED spawns
       ELSE /\ args' = << Trim(Val(req.branch)) >>
            /\ spawns' = Append(spawns, Spawn("execa", << s_revparse, << "@" >> >>))
            /\ pc' = "cp_local"
            /\ UNCHANGED result
    /\ UNCHANGED << req, commitMessageFile, warnings, pending, files, now,
                    startTime, classified, log, files0, cleanup, steps,
                    partialResults, caught, execaResult >>

\* `git rev-parse @` ends
CpLocal ==
    /\ pc = "cp_local"
    /\ IF req.local = None
       THEN /\ result' = Some(PullStatus(FALSE, FALSE, "noLocalHash"))
            /\ pc' = "returned"
            /\ UNCHANGED << args, spawns >>
       ELSE /\ args' = Append(args, Trim(Val(req.local)))
            /\ spawns' = Append(spawns, Spawn("execa", << s_revparse, << "@", "{", "u", "}" >> >>))
            /\ pc' = "cp_upstream"
            /\ UNCHANGED result
    /\ UNCHANGED << req, commitMessageFile, warnings, pending, files, now,
                    startTime, classified, log, files0, cleanup, steps,
                    partialResults, caught, execaResult >>

\* `git rev-parse @{u}` ends; equal hashes return at once
CpUpstream ==
    /\ pc = "cp_upstream"
    /\ IF req.upstream = None
       THEN /\ result' = Some(PullStatus(FALSE, FALSE, "noUpstream"))
            /\ pc' = "returned"
            /\ UNCHANGED << args, spawns >>
       ELSE IF args[2] = Trim(Val(req.upstream))
       THEN /\ result' = Some(PullStatus(FALSE, FALSE, "upToDate"))
            /\ pc' = "returned"
            /\ args' = Append(args, Trim(Val(req.upstream)))
            /\ UNCHANGED spawns
       ELSE /\ args' = Append(args, Trim(Val(req.upstream)))
            /\ spawns' = Append(spawns, Spawn("execa", << s_mergebase, << "@" >>, << "@", "{", "u", "}" >> >>))
            /\ pc' = "cp_base"
            /\ UNCHANGED result
    /\ UNCHANGED << req, commitMessageFile, warnings, pending, files, now,
                    startTime, classified, log, files0, cleanup, steps,
                    partialResults, caught, execaResult >>

\* `git merge-base @ @{u}` ends
CpBase ==
    /\ pc = "cp_base"
    /\ result' = Some(IF req.base = None
                      THEN PullStatus(TRUE, FALSE, "unclear")
                      ELSE Relationship(args[2], args[3], Trim(Val(req.base))))
    /\ pc' = "returned"
    /\ UNCHANGED << args, spawns >>
    /\ UNCHANGED << req, commitMessageFile, warnings, pending, files, now,
                    startTime, classified, log, files0, cleanup, steps,
                    partialResults, caught, execaResult >>

NextPull ==
    \/ CpFetch
    \/ CpBranch
    \/ CpLocal
    \/ CpUpstream
    \/ CpBase

SpecPull == InitPull /\ [][NextPull]_vars

---------------------------------------------------------------------------
(* Vocabulary of the properties *)

IsMaster == req.tool = "execute_git_command"
IsGitCommit == req.tool = "git_commit"
Returned == pc = "returned"

\* error.code of a Tool Result, "" when it has no error
ResultCode(r) ==
    IF IsSome(r) /\ IsSome(Val(r).error) THEN Val(Val(r).error).code ELSE ""

IsExeca(sp) == sp.site = "execa"
ExecaSpawns == SelectSeq(spawns, IsExeca)

RepoProbe == Spawn("validateGitRepo", << s_revparse, s_gitdir >>)

\* the call got past the repository precondition
RepoCheckPassed == ResultCode(result) # "NOT_GIT_REPO"

\* the request asks for commit-message staging: a commit with a non-empty message
AsksForStaging == req.command = s_commit /\ Truthy(req.commitMessage)

\* the write of the temporary file failed: staging was asked for and the
\* call never reached the safety check
StagingWriteFailed == AsksForStaging /\ classified = << >>

NormalizedArgs == validateCommandSyntax(req.command, req.args)

\* args after normalization and commit-message staging
FinalArgs ==
    IF AsksForStaging /\ commitMessageFile # None
    THEN << s_F, Val(commitMessageFile) >> \o FilteredArgs(NormalizedArgs)
    ELSE NormalizedArgs

Blocked(r) == ResultCode(r) = "DANGEROUS_COMMAND_BLOCKED"

---------------------------------------------------------------------------
(* C1 *)

\* C1 as stated: while and after a request of execute_git_command is
\* blocked, no subprocess at all has been spawned during the call.
C1_NoSubprocessAtAll ==
    (IsMaster /\ (Blocked(pending) \/ Blocked(result))) => spawns = << >>

\* C1 as amended: when a request of execute_git_command is blocked, the
\* only subprocess spawned during the call is the repository probe
\* `git rev-parse --git-dir` of validateGitRepo; the requested command is
\* never spawned.
C1_OnlyRepoProbeSpawned ==
    (IsMaster /\ (Blocked(pending) \/ Blocked(result))) => spawns = << RepoProbe >>

C1_Witness ==
    /\ Returned /\ IsMaster /\ Blocked(result)
    /\ req.command = s_reset /\ req.args = << s_hard, s_HEAD1 >>

---------------------------------------------------------------------------
(* C2 *)

HardResetOrForcePush(r) ==
    \/ r.command = s_reset /\ \E i \in 1..Len(r.args) : r.args[i] = s_hard
    \/ r.command = s_push /\ \E i \in 1..Len(r.args) : r.args[i] \in {s_force, s_f}

\* C2 as stated: with allowDangerous false (and the repository check
\* passed), every request that is a reset with --hard anywhere in args, or a
\* push with --force or -f anywhere in args, returns
\* DANGEROUS_COMMAND_BLOCKED and the command is never executed.
C2_HardResetAndForcePushBlocked ==
    (Returned /\ IsMaster /\ RepoCheckPassed /\ ~req.allowDangerous
        /\ HardResetOrForcePush(req))
    => (Blocked(result) /\ ExecaSpawns = << >>)

---------------------------------------------------------------------------
(* C3 *)

SixPhrases ==
    { s_reset \o SP \o s_hard, s_push \o SP \o s_force, s_push \o SP \o s_f,
      s_clean \o SP \o << "-", "f", "d" >>, s_clean \o SP \o s_f, s_rmrf }

ContainsPhrase(str) == \E p \in SixPhrases : Includes(str, p)

\* success=false, code DANGEROUS_COMMAND_BLOCKED, recoverable=false, a suggestion
FullBlockedResult(r) ==
    /\ IsSome(r)
    /\ ~Val(r).success
    /\ Blocked(r)
    /\ Val(Val(r).error).recoverable = FALSE
    /\ IsSome(Val(Val(r).error).suggestion)

\* C3 as stated: when the repository check passes, the result is the
\* DANGEROUS_COMMAND_BLOCKED result if and only if allowDangerous is false
\* and "<command> <final args joined by spaces>" contains one of the six
\* phrases.
C3_BlockedIffPhrase ==
    (Returned /\ IsMaster /\ RepoCheckPassed)
    => (FullBlockedResult(result)
        <=> (~req.allowDangerous
             /\ ContainsPhrase(req.command \o SP \o Join(FinalArgs, SP))))

\* C3 as amended: when the repository check passes, the result is the
\* DANGEROUS_COMMAND_BLOCKED result if and only if allowDangerous is false,
\* the write of the temporary commit-message file (if the request stages
\* one) did not fail, and "<command> <final args joined by spaces>"
\* contains one of the six phrases.
C3_BlockedIffPhraseAndStaged ==
    (Returned /\ IsMaster /\ RepoCheckPassed)
    => (FullBlockedResult(result)
        <=> (~req.allowDangerous
             /\ ~StagingWriteFailed
             /\ ContainsPhrase(req.command \o SP \o Join(FinalArgs, SP))))

C3_Witness ==
    /\ Returned /\ IsMaster /\ FullBlockedResult(result)
    /\ req.command = s_reset /\ req.args = << s_hard, s_HEAD1 >>
    /\ ~req.allowDangerous

---------------------------------------------------------------------------
(* C4 *)

\* C4 as stated: with allowDangerous true and the repository check passed,
\* the result is never DANGEROUS_COMMAND_BLOCKED and the command executor
\* was invoked exactly once, with [command, ...final args].
C4_AllowedRunsExactlyOnce ==
    (Returned /\ IsMaster /\ RepoCheckPassed /\ req.allowDangerous)
    => /\ ~Blocked(result)
       /\ ExecaSpawns = << Spawn("execa", << req.command >> \o FinalArgs) >>

\* C4 as amended: with allowDangerous true and the repository check passed,
\* the result is never DANGEROUS_COMMAND_BLOCKED; the command executor was
\* invoked exactly once, with [command, ...final args], unless the write of
\* the temporary commit-message file failed, in which case it was not
\* invoked at all.
C4_AllowedRunsOnceUnlessWriteFailed ==
    (Returned /\ IsMaster /\ RepoCheckPassed /\ req.allowDangerous)
    => /\ ~Blocked(result)
       /\ ExecaSpawns = IF StagingWriteFailed THEN << >>
                        ELSE << Spawn("execa", << req.command >> \o FinalArgs) >>

C4_Witness ==
    /\ Returned /\ IsMaster /\ req.allowDangerous
    /\ req.command = s_reset /\ req.args = << s_hard, s_HEAD1 >>
    /\ ExecaSpawns = << Spawn("execa", << s_reset, s_hard, s_HEAD1 >>) >>

---------------------------------------------------------------------------
(* C5 *)

CautionNames ==
    { << "r", "e", "b", "a", "s", "e" >>, s_merge,
      << "c", "h", "e", "r", "r", "y", "-", "p", "i", "c", "k" >>, s_reset }

\* C5: a successful Tool Result of execute_git_command carries a warning if
\* and only if the command name is exactly rebase, merge, cherry-pick or
\* reset, whatever args and allowDangerous are; with or without the warning
\* the result is a success exactly when the command exited with code 0.
C5_WarningIffCautionName ==
    (Returned /\ IsMaster /\ Val(result).success)
    => /\ (Val(result).warnings # << >>) <=> (req.command \in CautionNames)
       /\ Val(Val(result).data).exitCode = 0
       /\ log[Len(log)].success

C5_Witness ==
    /\ Returned /\ IsMaster /\ Val(result).success
    /\ req.command = s_reset /\ req.allowDangerous
    /\ req.args = << s_hard, s_HEAD1 >>
    /\ Val(result).warnings # << >>

---------------------------------------------------------------------------
(* C6 *)

\* a commit invocation with a commitMessage, of either tool
CommitWithMessage ==
    \/ IsMaster /\ req.command = s_commit /\ IsSome(req.commitMessage)
    \/ IsGitCommit

---------------------------------------------------------------------------
(* C7 *)

\* C7: when the executor is invoked for a commit request with a non-empty
\* commitMessage, its args begin with -F and the temporary path, and the
\* file at that path exists and holds exactly the commitMessage.
C7_FileHoldsMessageAtExec ==
    (pc = "execa" /\ IsMaster /\ AsksForStaging)
    => LET argv == spawns[Len(spawns)].argv IN
         /\ spawns[Len(spawns)].site = "execa"
         /\ Len(argv) >= 3
         /\ argv[1] = s_commit
         /\ argv[2] = s_F
         /\ argv[3] = Val(commitMessageFile)
         /\ FileExists(files, argv[3])
         /\ files[argv[3]] = Val(req.commitMessage)

C7_Witness ==
    /\ pc = "execa" /\ IsMaster /\ req.command = s_commit
    /\ req.commitMessage = Some(m_multiline)
    /\ files[Val(commitMessageFile)] = << "f", "i", "x", ":", " ", "a", "\n", "\n", "b" >>

---------------------------------------------------------------------------
(* C8 *)

NoDashM(list) == \A i \in 1..Len(list) : list[i] # s_m

\* the args the classifier and the executor have seen hold no "-m"
NoDashMSeen ==
    /\ \A i \in 1..Len(classified) : NoDashM(classified[i])
    /\ \A i \in 1..Len(ExecaSpawns) : NoDashM(Tail(ExecaSpawns[i].argv))

\* C8 as stated: whenever a commitMessage is supplied to
\* execute_git_command, for every command name and every commitMessage
\* value, the args seen by the classifier and the executor hold no "-m".
C8_NoDashMWheneverMessage ==
    (IsMaster /\ IsSome(req.commitMessage)) => NoDashMSeen

\* C8 as amended: whenever the command is "commit" and a non-empty
\* commitMessage is supplied to execute_git_command, the args seen by the
\* classifier and the executor hold no "-m".
C8_NoDashMWhenStaging ==
    (IsMaster /\ req.command = s_commit /\ Truthy(req.commitMessage)) => NoDashMSeen

C8_Witness ==
    /\ pc = "execa" /\ IsMaster /\ req.command = s_commit
    /\ Truthy(req.commitMessage)
    /\ \E i \in 1..Len(req.args) : req.args[i] = s_m
    /\ classified # << >>

---------------------------------------------------------------------------
(* C9 *)

\* C9: in every request of execute_git_command other than a commit with a
\* non-empty commitMessage, no temporary file is created or deleted at any
\* point of the call, and the args handed to the classifier and to the
\* executor are exactly the normalized args.
C9_NoStagingOtherwise ==
    (IsMaster /\ ~(req.command = s_commit /\ Truthy(req.commitMessage)))
    => /\ files = files0
       /\ commitMessageFile = None
       /\ cleanup = "none"
       /\ \A i \in 1..Len(classified) : classified[i] = NormalizedArgs
       /\ \A i \in 1..Len(ExecaSpawns) :
            ExecaSpawns[i].argv = << req.command >> \o NormalizedArgs

C9_Witness ==
    /\ Returned /\ IsMaster /\ req.command = s_merge
    /\ req.commitMessage = Some(m_multiline)
    /\ req.args = << s_depth, s_HEAD1 >>
    /\ ExecaSpawns = << Spawn("execa", << s_merge, s_depth \o << "=" >> \o s_HEAD1 >>) >>

---------------------------------------------------------------------------
(* C10 *)

AllowList ==
    { << "u", "n", "i", "f", "i", "e", "d" >>, << "f", "o", "r", "m", "a", "t" >>,
      << "p", "r", "e", "t", "t", "y" >>, << "d", "a", "t", "e" >>,
      << "c", "o", "l", "o", "r" >>, << "a", "b", "b", "r", "e", "v" >>,
      << "d", "e", "p", "t", "h" >>, << "s", "i", "n", "c", "e" >>,
      << "u", "n", "t", "i", "l" >>, << "a", "u", "t", "h", "o", "r" >>,
      << "c", "o", "m", "m", "i", "t", "t", "e", "r" >>, << "g", "r", "e", "p" >> }

IsAllowListFlag(x) == \E n \in AllowList : x = << "-", "-" >> \o n
StartsWithDash(x) == Len(x) >= 1 /\ x[1] = "-"
NonEmpty(x) == x # << >>

\* the positions of the flags of the (flag, value) pairs of a
PairPositions(a) ==
    { i \in 1..(Len(a) - 1) : IsAllowListFlag(a[i]) /\ ~StartsWithDash(a[i + 1]) }

\* the positions of a that are not the value of a pair
KeptPositions(a) == { i \in 1..Len(a) : (i - 1) \notin PairPositions(a) }

\* a with every pair replaced by the single token flag=value and everything
\* else left as it is
PairsMerged(a) ==
    [k \in 1..Cardinality(KeptPositions(a)) |->
        LET i == CHOOSE i \in KeptPositions(a) :
                    Cardinality({ j \in KeptPositions(a) : j <= i }) = k
        IN  IF i \in PairPositions(a) THEN a[i] \o << "=" >> \o a[i + 1] ELSE a[i]]

\* C10: the tokens of validateCommandSyntax's output are those of its input
\* with every pair (allow-listed --name, following argument not starting
\* with "-") replaced by the single token --name=value, and every other
\* flag (not allow-listed, followed by a flag, or last) unchanged and in
\* place; the allow-list is the twelve names; ["--unified","3"] becomes
\* ["--unified=3"].  (Arguments that are the empty string and stand alone
\* are left out of the comparison: the claim says nothing of them.)
C10_PairsMerged ==
    pc = "norm_out"
    => /\ SelectSeq(args, NonEmpty) = SelectSeq(PairsMerged(req.args), NonEmpty)
       /\ equalsOptions = AllowList
       /\ validateCommandSyntax(s_diff, << s_unified, s_3 >>) = << s_unified3 >>

C10_Witness ==
    /\ pc = "norm_out"
    /\ req.args = << s_stat, s_unified, s_3, s_since >>
    /\ args = << s_stat, s_unified3, s_since >>

---------------------------------------------------------------------------
(* C11 *)

\* C11: validateCommandSyntax is idempotent: applied to its own output it
\* gives that output back, so a token --name=value it produced is neither
\* merged again nor altered.
C11_Idempotent ==
    pc = "norm_twice" => args = validateCommandSyntax(req.command, req.args)

C11_Witness ==
    /\ pc = "norm_twice"
    /\ req.args = << s_unified, s_3, s_3 >>
    /\ args = << s_unified3, s_3 >>

---------------------------------------------------------------------------
(* C12 *)

\* the names of the operations performed so far, in order
Ops == [i \in 1..Len(steps) |-> steps[i].op]

HasOp(op) == \E i \in 1..Len(steps) : steps[i].op = op

\* the place of an operation in the sequence the claim gives
Rank(op) ==
    CASE op = "validateGitRepo"       -> 1
      [] op = "validateCommandSyntax" -> 2
      [] op = "writeFile"             -> 3
      [] op = "safetyCheck"           -> 4
      [] op = "execa"                 -> 5
      [] op = "logExecution"          -> 6
      [] op = "unlink"                -> 7
      [] op = "return"                -> 8

\* C12: the operations of a call of execute_git_command happen in the order
\* repository check, normalization, staging, safety check, execution,
\* logging, deletion of the temporary file, return, each at most once;
\* staging happens only for a request that asks for it and deletion only
\* when staging has chosen a path; a blocked call is never executed; the
\* safety check and the executor see the same final args.
C12_StepsInOrder ==
    IsMaster =>
      /\ \A i, j \in 1..Len(steps) : i < j => Rank(steps[i].op) < Rank(steps[j].op)
      /\ steps[1].op = "validateGitRepo"
      /\ HasOp("writeFile") => (AsksForStaging /\ commitMessageFile # None)
      /\ HasOp("unlink") => HasOp("writeFile")
      /\ Returned =>
           /\ steps[Len(steps)].op = "return"
           /\ HasOp("writeFile") => HasOp("unlink")
           /\ Blocked(result) => ~HasOp("execa")
      /\ HasOp("safetyCheck") => classified = << FinalArgs >>
      /\ HasOp("execa") =>
           ExecaSpawns = << Spawn("execa", << req.command >> \o classified[1]) >>

C12_Witness ==
    /\ Returned /\ IsMaster
    /\ req.args = << s_m, s_sentinelx >>
    /\ Ops = << "validateGitRepo", "validateCommandSyntax", "writeFile", "safetyCheck",
                "execa", "logExecution", "unlink", "return" >>

---------------------------------------------------------------------------
(* C13 *)

\* data and error of a Tool Result are keyed to success
WellFormed(r) ==
    /\ r.success => (IsSome(r.data) /\ r.error = None)
    /\ ~r.success => (IsSome(r.error) /\ r.data = None)

\* C13: every Tool Result returned by execute_git_command, git_status,
\* git_diff, git_add or git_commit has data and no error when success is
\* true, and an error and no data when success is false.
C13_DataXorError ==
    Returned => (IsSome(result) /\ WellFormed(Val(result)))

C13_Witness ==
    /\ Returned /\ req.tool = "git_status"
    /\ ~Val(result).success
    /\ partialResults = Some({"status", "changedFiles"})
    /\ Val(result).data = None

---------------------------------------------------------------------------
(* C14 *)

GenericSuggestion == Some("Check git installation and repository state")

---------------------------------------------------------------------------
(* C15 *)

Taxonomy ==
    { "NOT_GIT_REPO", "DANGEROUS_COMMAND_BLOCKED", "GIT_COMMAND_FAILED",
      "INVALID_COMMIT_MESSAGE", "NO_STAGED_CHANGES", "FILE_NOT_FOUND", "UNKNOWN_ERROR" }

\* C15: the error.code of every Tool Result with success false, of any
\* tool, is one of the seven codes of the taxonomy, whatever error was
\* raised underneath, a file-system error with its own code included.
C15_CodeInTaxonomy ==
    (Returned /\ ~Val(result).success) => ResultCode(result) \in Taxonomy

---------------------------------------------------------------------------
(* C16 *)

\* validateGitRepo has found that the working directory is no repository
RepoInvalid == IsSome(caught) /\ Val(caught).code = Some("NOT_GIT_REPO")

\* C16: when the repository check fails, in any tool, nothing else has been
\* done: the probe is the only subprocess, no file has been created or
\* removed, no temporary path chosen, no safety check made, the args of
\* execute_git_command are not normalized; and the Tool Result returned has
\* success false, code NOT_GIT_REPO and recoverable false.
C16_RepoCheckFirst ==
    RepoInvalid =>
      /\ spawns = << RepoProbe >>
      /\ files = files0
      /\ commitMessageFile = None
      /\ classified = << >>
      /\ cleanup = "none"
      /\ IsMaster => (args = req.args /\ ~HasOp("validateCommandSyntax"))
      /\ Returned =>
           /\ ~Val(result).success
           /\ ResultCode(result) = "NOT_GIT_REPO"
           /\ Val(Val(result).error).recoverable = FALSE

C16_Witness ==
    /\ Returned /\ IsMaster /\ RepoInvalid
    /\ req.command = s_commit /\ req.commitMessage = Some(m_multiline)
    /\ req.args = << s_depth, s_HEAD1 >>
    /\ ResultCode(result) = "NOT_GIT_REPO"


---------------------------------------------------------------------------
\* C17: in execute_git_command a subprocess that has ended is never turned
\* into a thrown error: the call succeeds exactly when the subprocess ended
\* with exit code 0, and a nonzero exit gives a failed result with code
\* GIT_COMMAND_FAILED, recoverable true, a suggestion, and the exit code,
\* stdout and stderr in error.details
C17_ExitCodeDecides ==
    (IsMaster /\ pc \in {"finally", "returned"}) =>
      LET r == IF Returned THEN Val(result) ELSE Val(pending) IN
        /\ r.success <=> (execaResult = Some(Some(0)))
        /\ IsSome(execaResult) => caught = None
        /\ (IsSome(execaResult) /\ execaResult # Some(Some(0))) =>
             /\ Val(r.error).code = "GIT_COMMAND_FAILED"
             /\ Val(r.error).recoverable = TRUE
             /\ IsSome(Val(r.error).suggestion)
             /\ DOMAIN Val(r.error).details = {"exitCode", "stdout", "stderr"}
             /\ Val(r.error).details.exitCode = Val(execaResult)

C17_Witness ==
    /\ Returned /\ IsMaster
    /\ execaResult = Some(Some(1))
    /\ ~Val(result).success
    /\ Val(Val(result).error).details.exitCode = Some(1)
    /\ caught = None


---------------------------------------------------------------------------
\* C18: every invocation of execute_git_command eventually returns a Tool
\* Result; once the timeout has ended the wait for the subprocess, the
\* invocation returns a result with success false, and a temporary file
\* that was written has had its deletion attempted by then
C18_TimedOutReturned ==
    /\ Returned /\ IsMaster
    /\ execaResult = Some(None)
    /\ ~Val(result).success
    /\ (commitMessageFile # None) => (cleanup # "none")

---------------------------------------------------------------------------
\* the time at which the running call performed `op`
At(op) == steps[CHOOSE i \in DOMAIN steps : steps[i].op = op].at

Succeeded == IsMaster /\ Returned /\ Val(result).success

\* C19 as stated: the execution time of a successful result, and the
\* duration of its log record, is the time between the start and the end
\* of the command subprocess
C19_SubprocessOnly ==
    Succeeded =>
      /\ Val(Val(result).data).executionTime = At("logExecution") - At("execa")
      /\ log[1].duration = At("logExecution") - At("execa")

\* C19 amended: the execution time of a successful result, and the duration
\* of its log record, is the time between the entry of the handler and the
\* end of the command subprocess, so it includes the time spent before
\* the spawn
C19_FromHandlerEntry ==
    Succeeded =>
      /\ Val(Val(result).data).executionTime = At("logExecution") - At("validateGitRepo")
      /\ log[1].duration = At("logExecution") - At("validateGitRepo")

C19_Witness ==
    /\ Succeeded
    /\ HasOp("writeFile")
    /\ At("execa") - At("validateGitRepo") = 2
    /\ At("logExecution") - At("execa") = 1
    /\ Val(Val(result).data).executionTime = 3


---------------------------------------------------------------------------
\* C20: an invocation of execute_git_command never writes a second log
\* record, and has written exactly one by the time it reaches its finally
\* block and when it returns, whatever the path; the record's success flag is
\* the success field of the Tool Result, and the record has an error line
\* exactly when it is a failure record
C20_OneLogRecord ==
    IsMaster =>
      /\ Len(log) <= 1
      /\ pc \in {"finally", "returned"} =>
           /\ Len(log) = 1
           /\ log[1].success = Val(pending).success
           /\ log[1].errorLine = ~log[1].success
      /\ Returned => log[1].success = Val(result).success

C20_Witness ==
    /\ IsMaster /\ Returned
    /\ caught = Some(FsError)
    /\ Len(log) = 1
    /\ ~log[1].success /\ log[1].errorLine
    /\ ~Val(result).success


---------------------------------------------------------------------------
\* the conventional-commit pattern, read off a line: a type, then nothing or
\* a parenthesised scope, then ": ", then a description
IsBlank(m) == \A i \in 1..Len(m) : m[i] \in { " ", "\t", "\n", "\r" }

TextBeforeNewline(m) ==
    SubSeq(m, 1, CHOOSE k \in 0..Len(m) :
                    /\ \A i \in 1..k : m[i] # "\n"
                    /\ k < Len(m) => m[k + 1] = "\n")

\* line = type scope? ": " description, where ScopeOk tells the scopes and
\* DescOk the descriptions that are accepted
HasPattern(line, ScopeOk(_), DescOk(_)) ==
    \E t \in CommitTypes : \E b \in Len(t)..Len(line) :
        /\ SubSeq(line, 1, Len(t)) = t
        /\ \/ b = Len(t)
           \/ /\ b >= Len(t) + 2
              /\ line[Len(t) + 1] = "(" /\ line[b] = ")"
              /\ ScopeOk(SubSeq(line, Len(t) + 2, b - 1))
        /\ Len(line) >= b + 2
        /\ line[b + 1] = ":" /\ line[b + 2] = " "
        /\ DescOk(SubSeq(line, b + 3, Len(line)))

AnyNonEmpty(x) == x # << >>
NoLineTerminator(x) == x # << >> /\ \A i \in 1..Len(x) : x[i] # "\r"
StartsOnALine(x) == x # << >> /\ x[1] # "\r"

ErrorSet(r) == { r.errors[i] : i \in 1..Len(r.errors) }

\* what the claim says of a message m and the value r returned for it,
\* given the reading FormatOk of the pattern
ValidatorContract(m, r, FormatOk(_)) ==
    /\ r.valid <=> (r.errors = << >>)
    /\ Len(r.errors) = Cardinality(ErrorSet(r))
    /\ IF IsBlank(m)
       THEN r.errors = << "empty" >>
       ELSE /\ ErrorSet(r) \subseteq { "format", "length" }
            /\ ("format" \in ErrorSet(r)) <=> ~FormatOk(TextBeforeNewline(m))
            /\ ("length" \in ErrorSet(r)) <=> (Len(TextBeforeNewline(m)) > 72)

PatternAsStated(line) == HasPattern(line, AnyNonEmpty, AnyNonEmpty)
PatternOnOneLine(line) == HasPattern(line, NoLineTerminator, StartsOnALine)

\* C21 as stated: one 'empty' error for a blank message; otherwise a format
\* error exactly when the first line is not `type[(scope)]: description`
\* with a non-empty description, a length error exactly when the first line
\* is longer than 72 characters; valid exactly when there is no error
C21_AsStated ==
    pc = "val_out" =>
      ValidatorContract(Val(req.commitMessage), Val(result), PatternAsStated)

\* C21 amended: the same, where the scope holds no carriage return and the
\* description does not begin with one
C21_ValidatorContract ==
    pc = "val_out" =>
      ValidatorContract(Val(req.commitMessage), Val(result), PatternOnOneLine)

C21_Witness ==
    /\ pc = "val_out"
    /\ Val(result).errors = << "format", "length" >>
    /\ ~Val(result).valid
    /\ Len(TextBeforeNewline(Val(req.commitMessage))) = 73


---------------------------------------------------------------------------
\* the gates of git_commit
MessageGate ==
    \/ req.validate = Some(FALSE)
    \/ validateCommitMessage(Val(req.commitMessage)).valid

CommitSpawned ==
    \E i \in 1..Len(spawns) : spawns[i].argv[1] = s_commit

\* C22: git_commit has run `git commit` or touched a temporary file only
\* after the message gate (validation off, or the message accepted) and then
\* the staged gate (the staged list not empty) were passed, in that order;
\* a message that fails the first gate gives INVALID_COMMIT_MESSAGE
\* (recoverable, the validator's errors as suggestion) before the staged
\* check is spawned; an empty staged list gives NO_STAGED_CHANGES (recoverable)
C22_GatesBeforeCommit ==
    IsGitCommit =>
      /\ (CommitSpawned \/ commitMessageFile # None \/ files # files0) =>
           /\ MessageGate
           /\ HasOp("stagedFound")
           /\ HasOp("validateCommitMessage") =>
                At("validateCommitMessage") <= At("stagedCheck")
           /\ \E i, j \in 1..Len(steps) :
                i < j /\ steps[i].op = "stagedCheck" /\ steps[j].op = "stagedFound"
      /\ HasOp("validateCommitMessage") => req.validate # Some(FALSE)
      /\ (~MessageGate) => ~HasOp("stagedCheck")
      /\ (~MessageGate /\ Returned /\ ~RepoInvalid) =>
           /\ ResultCode(result) = "INVALID_COMMIT_MESSAGE"
           /\ Val(Val(result).error).recoverable = TRUE
           /\ Val(Val(result).error).suggestion
                = Some(validateCommitMessage(Val(req.commitMessage)).errors)
      /\ (HasOp("nothingStaged") /\ Returned) =>
           /\ ResultCode(result) = "NO_STAGED_CHANGES"
           /\ Val(Val(result).error).recoverable = TRUE

C22_Witness ==
    /\ IsGitCommit /\ Returned
    /\ req.validate = None
    /\ req.commitMessage = Some(m_wip)
    /\ ResultCode(result) = "INVALID_COMMIT_MESSAGE"
    /\ Len(spawns) = 1
    /\ files = files0


---------------------------------------------------------------------------
\* C23: a git_status call that fails at a sub-step after earlier sub-steps
\* completed returns a Tool Result whose partialResults holds the output of
\* every sub-step completed before the failure
C23_PartialResultsReported ==
    ( /\ req.tool = "git_status" /\ Returned
      /\ ~Val(result).success
      /\ IsSome(partialResults) /\ Val(partialResults) # {} ) =>
        /\ "partialResults" \in DOMAIN Val(result)
        /\ Val(partialResults) \subseteq Val(result).partialResults


---------------------------------------------------------------------------
\* a git_add call with an explicit list of which some file does not exist
ListsMissingFile ==
    /\ req.tool = "git_add"
    /\ ~AddsEverything(req)
    /\ \E i \in 1..Len(Val(req.files)) : ~FileExists(files, ResolvePath(Val(req.files)[i]))

GitAddSpawned == \E i \in 1..Len(spawns) : spawns[i].argv[1] = s_add

PreconditionFailed ==
    IsSome(caught) /\ Val(caught).code \in { Some("NOT_GIT_REPO"), Some("GIT_COMMAND_FAILED") }

\* C24 as stated: with an explicit list that names a missing file, `git add`
\* is never run and the call, unless one of its precondition commands
\* failed, returns FILE_NOT_FOUND with success false and recoverable true
C24_AsStated ==
    ListsMissingFile =>
      /\ ~GitAddSpawned
      /\ (Returned /\ ~PreconditionFailed) =>
           /\ ~Val(result).success
           /\ ResultCode(result) = "FILE_NOT_FOUND"
           /\ Val(Val(result).error).recoverable = TRUE

\* C24 amended: with an explicit list that names a missing file, `git add`
\* is never run; when the status check has reported changes the call
\* returns FILE_NOT_FOUND with success false and recoverable true, and
\* when the repository is clean it returns the success result "No changes
\* to stage" without having looked at the files
C24_MissingFileStopsAdd ==
    ListsMissingFile =>
      /\ ~GitAddSpawned
      /\ (Returned /\ ~PreconditionFailed) =>
           IF args = << >>
           THEN Val(result) = AdCleanResult /\ steps = << >>
           ELSE /\ ~Val(result).success
                /\ ResultCode(result) = "FILE_NOT_FOUND"
                /\ Val(Val(result).error).recoverable = TRUE

C24_Witness ==
    /\ ListsMissingFile /\ Returned
    /\ req.files = Some(<< f_a, f_b >>)
    /\ steps = << Step("access"), Step("accessFailed") >>
    /\ ResultCode(result) = "FILE_NOT_FOUND"
    /\ ~GitAddSpawned


---------------------------------------------------------------------------
\* C25: the Tool Result that execute_git_command and git_commit return is
\* the value their return statement held before the finally block ran,
\* whether the deletion of the temporary file succeeded or failed; a failed
\* deletion leaves no error behind
C25_CleanupNeverMasks ==
    ((IsMaster \/ IsGitCommit) /\ Returned) =>
      /\ IsSome(result)
      /\ result = pending
      /\ cleanup = "unlinkFailed" =>
           /\ caught = None => Val(result).success \/ ResultCode(result) # "UNKNOWN_ERROR"
           /\ IsSome(caught) => Val(result) \in { CaughtResult(Val(caught)), GcCaughtResult(Val(caught)) }

C25_Witness ==
    /\ IsMaster /\ Returned
    /\ cleanup = "unlinkFailed"
    /\ FileExists(files, Val(commitMessageFile))
    /\ Val(result).success
    /\ caught = None


---------------------------------------------------------------------------
\* C26: the output of validateCommandSyntax is its input with the adjacent
\* (flag, value) pairs merged and nothing else changed: every other
\* argument, the empty string included, is kept in its place, and the
\* output has as many tokens as the input less the number of merges
C26_ArgsPreserved ==
    pc = "norm_out" =>
      /\ args = PairsMerged(req.args)
      /\ Len(args) = Len(req.args) - Cardinality(PairPositions(req.args))


---------------------------------------------------------------------------
\* a without its inline messages: every "-m" and the argument after it
RECURSIVE WithoutInlineMessage(_)
WithoutInlineMessage(a) ==
    IF a = << >> THEN << >>
    ELSE IF Head(a) = s_m
         THEN WithoutInlineMessage(IF Len(a) >= 2 THEN Tail(Tail(a)) ELSE << >>)
         ELSE << Head(a) >> \o WithoutInlineMessage(Tail(a))

HasInlineMessage(a) == \E i \in 1..(Len(a) - 1) : a[i] = s_m

---------------------------------------------------------------------------
\* C28: of two commit invocations, whether they overlap or start within the
\* same millisecond, the temporary paths differ, and every `git commit -F`
\* finds in its file the message of its own invocation: no other invocation
\* has overwritten or deleted the file before
C28_ExclusiveTempFile ==
    /\ \A i, j \in Invocations :
         (i # j /\ IsSome(commitMessageFile[i]) /\ IsSome(commitMessageFile[j]))
           => commitMessageFile[i] # commitMessageFile[j]
    /\ \A k \in 1..Len(spawns) :
         spawns[k].found = Some(FileContentWritten(Val(req[spawns[k].who].commitMessage)))


---------------------------------------------------------------------------
\* the call has been blocked by the safety check
CallBlocked ==
    /\ IsMaster /\ pc \in {"finally", "returned"}
    /\ ResultCode(pending) = "DANGEROUS_COMMAND_BLOCKED"

\* C29 as stated: a call of execute_git_command that ends in
\* DANGEROUS_COMMAND_BLOCKED has written no file and named no temporary
\* file at any point, a commit with a commitMessage included
C29_BlockedNoWrite ==
    CallBlocked =>
      /\ ~HasOp("writeFile")
      /\ commitMessageFile = None
      /\ pc = "finally" => files = files0

\* C29 amended: a blocked call has written a file exactly when it is a
\* commit with a non-empty commitMessage; then the temporary file was
\* written, with the message, before the safety check, and its deletion is
\* attempted before the blocked result is returned; any other blocked call
\* leaves the working directory untouched
C29_BlockedWritesOnlyWhenStaging ==
    CallBlocked =>
      IF req.command = s_commit /\ Truthy(req.commitMessage)
      THEN /\ IsSome(commitMessageFile)
           /\ \E i, j \in 1..Len(steps) :
                i < j /\ steps[i].op = "writeFile" /\ steps[j].op = "safetyCheck"
           /\ pc = "finally" =>
                /\ FileExists(files, Val(commitMessageFile))
                /\ files[Val(commitMessageFile)] = Val(req.commitMessage)
           /\ Returned => cleanup # "none"
      ELSE /\ ~HasOp("writeFile")
           /\ commitMessageFile = None
           /\ files = files0
           /\ cleanup = "none"

C29_Witness ==
    /\ CallBlocked /\ Returned
    /\ req.command = s_commit /\ req.commitMessage = Some(m_multiline)
    /\ req.args = << s_rmrf >>
    /\ HasOp("writeFile")
    /\ cleanup = "unlinked"
    /\ ~FileExists(files, Val(commitMessageFile))
    /\ ExecaSpawns = << >>


---------------------------------------------------------------------------
\* what the drawn repository is, told from what the commands print
Shown(out) == SelectSeq(Val(out), LAMBDA ch : ch \notin { " ", "\n", "\t", "\r" })

PullSkipped ==
    \/ ~req.fetch
    \/ req.branch = None
    \/ Shown(req.branch) = s_HEAD
    \/ req.local = None
    \/ req.upstream = None
    \/ Shown(req.local) = Shown(req.upstream)

Behind == req.base # None /\ Shown(req.base) = Shown(req.local)
Ahead == req.base # None /\ Shown(req.base) = Shown(req.upstream)

\* C30: checkNeedsPull returns a value on every path; canAutoPull implies
\* needsPull; canAutoPull holds only when the local hash is the merge base
\* and differs from the upstream hash; a failed fetch, branch, local-hash
\* or upstream-hash lookup, a detached HEAD and equal hashes give needsPull
\* false; diverged branches and a failed merge-base give needsPull true
\* with canAutoPull false
C30_PullStatus ==
    /\ caught = None
    /\ pc = "returned" =>
         /\ IsSome(result)
         /\ Val(result).canAutoPull => Val(result).needsPull
         /\ Val(result).canAutoPull =>
              (~PullSkipped /\ Behind /\ Shown(req.local) # Shown(req.upstream))
         /\ PullSkipped => ~Val(result).needsPull
         /\ (~PullSkipped /\ (req.base = None \/ (~Behind /\ ~Ahead))) =>
              (Val(result).needsPull /\ ~Val(result).canAutoPull)

C30_Witness ==
    /\ pc = "returned"
    /\ ~PullSkipped /\ Behind
    /\ Val(result) = PullStatus(TRUE, TRUE, "behind")
    /\ Len(spawns) = 5

====
